---------------------------- MODULE Spec2Model ----------------------------
(***************************************************************************)
(* A model of the analytics engine of pererecos-stats                      *)
(* (backend/app/services/stats_service.py) together with the ingestion     *)
(* path that fills the message store (backend/app/bot/twitch_bot.py).      *)
(*                                                                         *)
(* Time is counted in whole seconds since the epoch.  A floating point     *)
(* quantity the code computes by one division is kept as the exact         *)
(* fraction [num, den]: for the small counts explored here two such        *)
(* quotients are equal (ordered) as floats exactly when the fractions are. *)
(***************************************************************************)
EXTENDS Integers, Sequences, FiniteSets, TLC

VARIABLES
    store,          \* db.messages: the stored events, in insertion order
    now,            \* the wall clock, datetime.now(timezone.utc)
    resp,           \* the response of the request handled last, None when delivered
    arg,            \* the argument handed to a pure function under test
    emotes_cache,   \* _7tv_emotes_cache (stats_service.py:14)
    cache_time,     \* _7tv_cache_time   (stats_service.py:15)
    pc,             \* per get_7tv_emotes caller: its position in the coroutine
    call_now,       \* per caller: the local `now` of line 55
    emotes,         \* per caller: the local dict `emotes` of line 61
    failed,         \* per caller: an except clause of lines 78-81 ran
    old_cache,      \* per caller: the cache the call found at line 56
    ret             \* per caller: the value the call returned

vars == <<store, now, resp, arg, emotes_cache, cache_time, pc, call_now,
          emotes, failed, old_cache, ret>>

cacheVars == <<emotes_cache, cache_time, pc, call_now, emotes, failed, old_cache, ret>>

None == [op |-> "none"]

----------------------------------------------------------------------------
(* Bounds of the exploration.                                              *)

MaxEvents == 3      \* events the store holds at most
MaxLimit == 2       \* largest `limit` a request passes
MaxCount == 15      \* largest per-window count drawn for the growth engine
MaxBins == 3        \* most non-empty hours of a drawn histogram
MaxRowCount == 5    \* largest count in one hour of a drawn pool row
MaxPatternCount == 3 \* largest count in one hour of a drawn subject pattern
MaxMessages == 2    \* most message texts handed to the emote counter
MaxChars == 4       \* most characters of these texts together
MaxStored == 2      \* events the store holds at most beside a suspended request

(* Program constants.                                                      *)
MAX_USERS_QUERY == 1000
MAX_MESSAGES_QUERY == 10000
PREVIOUS_LIMIT == 50
REPLY_WINDOW == 10
REPLY_LIMIT == 5
CACHE_TTL == 3600
HoursPerDay == 24
WINDOW == 3

Hour == 60 * 60
Day == HoursPerDay * Hour

(* Twitch login names as the chat delivers them, and as a request names    *)
(* them.  str.lower() maps each to the stored handle.                      *)
Authors == {"a", "b", "C"}
lower(name) == IF name = "C" THEN "c" ELSE name
Periods == {"day", "week", "month", "all"}

(* The instants the clock is observed at.  T0 is 01:59:59 UTC, the last    *)
(* second of hour 22 in Brasilia, and T0 + 1 the first of hour 23; seen    *)
(* from the later instants these two lie one second outside and exactly    *)
(* on the border of the 7, 14 and 30 day windows.                          *)
T0 == 2 * Hour - 1
ClockPoints == {T0, T0 + 1, T0 + 7 * Day + 1, T0 + 14 * Day + 1, T0 + 30 * Day + 1}

----------------------------------------------------------------------------
(* Generic helpers.                                                        *)

Min(a, b) == IF a <= b THEN a ELSE b

\* s[:n]
Take(s, n) == SubSeq(s, 1, Min(Len(s), n))

\* every arrangement of the finite set S as a sequence without repetition
Perms(S) ==
    {s \in [1..Cardinality(S) -> S] : \A i, j \in DOMAIN s : s[i] = s[j] => i = j}

\* the elements of a finite set of numbers, rising
Rising(S) ==
    [k \in 1..Cardinality(S) |->
        CHOOSE x \in S : Cardinality({y \in S : y < x}) = k - 1]

RECURSIVE SumSeq(_)
SumSeq(s) == IF s = <<>> THEN 0 ELSE s[1] + SumSeq(Tail(s))

\* a / b as a fraction, b > 0
Frac(a, b) == [num |-> a, den |-> b]
FracEq(x, y) == x.num * y.den = y.num * x.den
FracLt(x, y) == x.num * y.den < y.num * x.den

----------------------------------------------------------------------------
(* Python floats: IEEE 754 binary64, every operation rounded to the        *)
(* nearest value of 53 significant bits, a half to the even one.  A        *)
(* positive float is [m, e], worth m * 2^e, m a natural number of exactly  *)
(* 53 bits; 0.0 is FloatZero.  Natural numbers too large for one machine   *)
(* word are sequences of limbs in base 2^15, the least significant first,  *)
(* without high zero limbs.                                                *)

Base == 2 ^ 15
LimbBits == 15
Precision == 53

Limb(a, i) == IF i <= Len(a) THEN a[i] ELSE 0

\* a without its high zero limbs
Norm(a) ==
    LET used == {i \in DOMAIN a : \E j \in DOMAIN a : j >= i /\ a[j] # 0}
    IN  SubSeq(a, 1, Cardinality(used))

\* an int 0 <= n < 2^31 as limbs
BigOfInt(n) == Norm(<<n % Base, (n \div Base) % Base, n \div (Base * Base)>>)

\* a number of at most two limbs as an int
BigToInt(a) == Limb(a, 1) + Base * Limb(a, 2)

\* a + b: limb i takes a carry when a lower limb overflows and every limb
\* between passes the carry on
BigAdd(a, b) ==
    LET n == IF Len(a) > Len(b) THEN Len(a) ELSE Len(b)
        carry(i) == IF \E j \in 1..(i - 1) :
                          /\ Limb(a, j) + Limb(b, j) >= Base
                          /\ \A k \in (j + 1)..(i - 1) : Limb(a, k) + Limb(b, k) = Base - 1
                    THEN 1 ELSE 0
    IN  Norm([i \in 1..(n + 1) |-> (Limb(a, i) + Limb(b, i) + carry(i)) % Base])

\* a - b for a >= b: limb i lends when a lower limb falls short and every
\* limb between is level
BigSub(a, b) ==
    LET borrow(i) == IF \E j \in 1..(i - 1) :
                           /\ a[j] < Limb(b, j)
                           /\ \A k \in (j + 1)..(i - 1) : a[k] = Limb(b, k)
                     THEN 1 ELSE 0
    IN  Norm([i \in 1..Len(a) |-> (a[i] - Limb(b, i) - borrow(i)) % Base])

\* a <= b
BigLe(a, b) ==
    \/ Len(a) < Len(b)
    \/ /\ Len(a) = Len(b)
       /\ \A i \in DOMAIN a : a[i] > b[i] => \E j \in DOMAIN a : j > i /\ a[j] < b[j]

\* a * k for 0 <= k < Base: the low halves of the limb products plus their
\* high halves one limb up
BigMulSmall(a, k) ==
    BigAdd(Norm([i \in 1..Len(a) |-> (a[i] * k) % Base]),
           Norm([i \in 1..(Len(a) + 1) |-> IF i = 1 THEN 0 ELSE (a[i - 1] * k) \div Base]))

\* a * Base^n
ShiftLimbs(a, n) == IF a = <<>> THEN <<>> ELSE [i \in 1..n |-> 0] \o a

RECURSIVE BigMulFrom(_, _, _)
BigMulFrom(a, b, i) ==
    IF i > Len(a) THEN <<>>
    ELSE BigAdd(ShiftLimbs(BigMulSmall(b, a[i]), i - 1), BigMulFrom(a, b, i + 1))

BigMul(a, b) == BigMulFrom(a, b, 1)

\* the number of bits of the limb x
LimbLen(x) == Cardinality({k \in 0..(LimbBits - 1) : 2 ^ k <= x})

BitLen(a) == IF a = <<>> THEN 0 ELSE LimbBits * (Len(a) - 1) + LimbLen(a[Len(a)])

\* a * 2^k
Shl(a, k) == ShiftLimbs(BigMulSmall(a, 2 ^ (k % LimbBits)), k \div LimbBits)

\* floor(a / 2^k)
Shr(a, k) ==
    LET drop == k \div LimbBits
        r == k % LimbBits
    IN  Norm([i \in 1..(IF Len(a) > drop THEN Len(a) - drop ELSE 0) |->
                 (a[i + drop] \div 2 ^ r)
                     + (Limb(a, i + drop + 1) % 2 ^ r) * 2 ^ (LimbBits - r)])

\* bit k of a, bit 0 the least significant
BitAt(a, k) == (Limb(a, (k \div LimbBits) + 1) \div 2 ^ (k % LimbBits)) % 2

\* the bits of a below bit k are all 0
LowZero(a, k) ==
    /\ \A i \in 1..(k \div LimbBits) : Limb(a, i) = 0
    /\ Limb(a, (k \div LimbBits) + 1) % 2 ^ (k % LimbBits) = 0

FloatZero == [m |-> <<>>, e |-> 0]

\* the float nearest to n * 2^e (plus a positive amount below one unit of n
\* when `inexact`), n > 0; an inexact n has more than Precision bits
MakeFloat(n, e, inexact) ==
    LET len == BitLen(n)
    IN  IF len <= Precision
        THEN [m |-> Shl(n, Precision - len), e |-> e - (Precision - len)]
        ELSE LET s == len - Precision
                 q == Shr(n, s)
                 up == /\ BitAt(n, s - 1) = 1
                       /\ (inexact \/ ~LowZero(n, s - 1) \/ BitAt(n, s) = 1)
                 m == IF up THEN BigAdd(q, <<1>>) ELSE q
             IN  IF BitLen(m) > Precision
                 THEN [m |-> Shr(m, 1), e |-> e + s + 1]
                 ELSE [m |-> m, e |-> e + s]

\* float(n) for an int n >= 0
FloatOfInt(n) == IF n = 0 THEN FloatZero ELSE MakeFloat(BigOfInt(n), 0, FALSE)

\* x * y
FloatMul(x, y) ==
    IF x = FloatZero \/ y = FloatZero THEN FloatZero
    ELSE MakeFloat(BigMul(x.m, y.m), x.e + y.e, FALSE)

\* Long division in base 2^15.  The divisor d has DivLimbs limbs, the
\* highest at least Base / 2, so the quotient of the two highest limbs of
\* the remainder by the highest limb of d is the next quotient limb or up
\* to 2 above it.
DivLimbs == 4
DivShift == DivLimbs * LimbBits - Precision

\* the next quotient limb: s.rem < d becomes s.rem * Base
DivStep(s, d) ==
    LET rem == ShiftLimbs(s.rem, 1)
        top == Limb(rem, DivLimbs + 1) * Base + Limb(rem, DivLimbs)
        guess == Min(Base - 1, top \div d[DivLimbs])
        digit == CHOOSE c \in {guess, guess - 1, guess - 2} :
                     /\ c >= 0
                     /\ BigLe(BigMulSmall(d, c), rem)
                     /\ c = guess \/ ~BigLe(BigMulSmall(d, c + 1), rem)
    IN  [q |-> BigAdd(ShiftLimbs(s.q, 1), BigOfInt(digit)),
         rem |-> BigSub(rem, BigMulSmall(d, digit)),
         steps |-> s.steps - 1]

\* s.steps more quotient limbs
RECURSIVE DivLoop(_, _)
DivLoop(s, d) == IF s.steps = 0 THEN s ELSE DivLoop(DivStep(s, d), d)

\* x / y, y > 0
FloatDiv(x, y) ==
    IF x = FloatZero THEN FloatZero
    ELSE LET n == Shl(x.m, DivShift)
             d == Shl(y.m, DivShift)
             first == BigLe(d, n)
             r == DivLoop([q |-> IF first THEN <<1>> ELSE <<>>,
                           rem |-> IF first THEN BigSub(n, d) ELSE n,
                           steps |-> DivLimbs], d)
         IN  MakeFloat(r.q, x.e - y.e - DivLimbs * LimbBits, r.rem # <<>>)

\* the largest r with r * r <= n, for a small n
SmallRoot(n) == CHOOSE r \in 0..n : r * r <= n /\ (r + 1) * (r + 1) > n

\* The binary digits of the square root run in blocks of BlockSteps blocks
\* of BlockSteps steps, which keeps the evaluation of the recursion shallow.
BlockSteps == 2 ^ 2

\* one more binary digit of the square root: root and remainder of 4 * n
\* from those of n
SqrtStep(s) ==
    LET r4 == BigMulSmall(s.rem, 4)
        trial == BigAdd(BigMulSmall(s.root, 4), <<1>>)
    IN  IF BigLe(trial, r4)
        THEN [root |-> BigAdd(BigMulSmall(s.root, 2), <<1>>), rem |-> BigSub(r4, trial),
              steps |-> s.steps - 1]
        ELSE [root |-> BigMulSmall(s.root, 2), rem |-> r4, steps |-> s.steps - 1]

RECURSIVE SqrtSteps(_, _)
SqrtSteps(s, n) ==
    IF n = 0 \/ s.steps = 0 THEN s ELSE SqrtSteps(SqrtStep(s), n - 1)

RECURSIVE SqrtBlock(_, _)
SqrtBlock(s, n) ==
    IF n = 0 \/ s.steps = 0 THEN s ELSE SqrtBlock(SqrtSteps(s, BlockSteps), n - 1)

\* s.steps more binary digits of the square root
RECURSIVE SqrtLoop(_)
SqrtLoop(s) ==
    IF s.steps = 0 THEN s ELSE SqrtLoop(SqrtBlock(s, BlockSteps))

\* math.sqrt(n) for a small int n >= 0
math_sqrt(n) ==
    IF n = 0 THEN FloatZero
    ELSE LET r0 == SmallRoot(n)
             r == SqrtLoop([root |-> BigOfInt(r0), rem |-> BigOfInt(n - r0 * r0),
                            steps |-> Precision + 1])
         IN  MakeFloat(r.root, 0 - (Precision + 1), r.rem # <<>>)

\* math.sqrt on the sums of squares that occur, tabulated once
MaxNorm == MaxRowCount * MaxRowCount + MaxPatternCount * MaxPatternCount + 2
sqrt_of == [n \in 0..MaxNorm |-> math_sqrt(n)] @@ <<>>

\* x < y for floats x, y >= 0
FloatLt(x, y) ==
    IF y = FloatZero THEN FALSE
    ELSE IF x = FloatZero THEN TRUE
    ELSE \/ x.e < y.e
         \/ x.e = y.e /\ x.m # y.m /\ BigLe(x.m, y.m)

\* round(x, 1) of a float 0 <= x < 2^31 / 10, in tenths: the tenth nearest
\* to the exact value of x, a half to the even one
RoundTenthsFloat(x) ==
    IF x = FloatZero THEN 0
    ELSE LET n == BigMulSmall(x.m, 10)
             k == 0 - x.e
             q == BigToInt(Shr(n, k))
             up == /\ BitAt(n, k - 1) = 1
                   /\ (~LowZero(n, k - 1) \/ q % 2 = 1)
         IN  IF up THEN q + 1 ELSE q

----------------------------------------------------------------------------
(* Ingestion: TwitchBot.event_message.                                     *)

\* now.astimezone(BRT).hour, BRT = UTC-3
BrtHour(t) == ((t \div Hour) + (HoursPerDay - 3)) % HoursPerDay

event_message(author) ==
    /\ resp = None
    /\ Len(store) < MaxEvents
    /\ store' = Append(store, [username |-> lower(author),
                               timestamp |-> now,
                               hour |-> BrtHour(now)])
    /\ UNCHANGED <<now, resp, arg>>
    /\ UNCHANGED cacheVars

\* the wall clock moves on between two observations
Advance(points) ==
    /\ resp = None
    /\ \E t \in points : t > now /\ now' = t
    /\ UNCHANGED <<store, resp, arg>>
    /\ UNCHANGED cacheVars

Tick == Advance(ClockPoints)

\* the HTTP layer hands the response to the client
Reply ==
    /\ resp # None
    /\ resp' = None
    /\ UNCHANGED <<store, now, arg>>
    /\ UNCHANGED cacheVars

----------------------------------------------------------------------------
(* TimeWindow: get_date_filter.  `t` is the clock read at line 112.        *)

get_date_filter(period, t) ==
    IF period = "day" THEN [has |-> TRUE, gte |-> t - Day]
    ELSE IF period = "week" THEN [has |-> TRUE, gte |-> t - 7 * Day]
    ELSE IF period = "month" THEN [has |-> TRUE, gte |-> t - 30 * Day]
    ELSE [has |-> FALSE, gte |-> 0]

\* {"$match": match_stage} on one event
Match(e, f) == f.has => e.timestamp >= f.gte

\* the positions of the stored events a $match keeps
Matching(f) == {i \in DOMAIN store : Match(store[i], f)}

\* {"$group": {"_id": "$username", "count": {"$sum": 1}}} over the events at I:
\* the groups, as a set (the store returns them in an order of its choosing)
GroupByUser(I) ==
    {[id |-> u, count |-> Cardinality({i \in I : store[i].username = u})] :
        u \in {store[i].username : i \in I}}

\* ... followed by {"$sort": {"count": -1}}, {"$limit": MAX_USERS_QUERY}:
\* every order the store may return, ties in any order
RankTables(I) ==
    {Take(s, MAX_USERS_QUERY) :
        s \in {p \in Perms(GroupByUser(I)) :
                  \A i, j \in DOMAIN p : i < j => p[i].count >= p[j].count}}


----------------------------------------------------------------------------
(* RankTable: get_user_percentile, lines 272-289, on the table the store   *)
(* returned.  The quotient (below_count / total_users) * 100 is kept as    *)
(* the fraction 100 * below_count / total_users.                           *)

\* the count of the first row of `tbl` whose _id is `name`, 0 when none is
FirstCount(tbl, name) ==
    IF \E i \in DOMAIN tbl : tbl[i].id = name
    THEN tbl[CHOOSE i \in DOMAIN tbl :
                /\ tbl[i].id = name
                /\ \A j \in DOMAIN tbl : tbl[j].id = name => i <= j].count
    ELSE 0

\* variant: line 286 with <=
BelowPercentInclusive(all_users, user_count) ==
    Frac(Cardinality({i \in DOMAIN all_users : all_users[i].count <= user_count}) * 100,
         Len(all_users))

\* lines 286-289
BelowPercent(all_users, user_count) ==
    Frac(Cardinality({i \in DOMAIN all_users : all_users[i].count < user_count}) * 100,
         Len(all_users))

Percentile(username, all_users) ==
    IF all_users = <<>> THEN Frac(0, 1)
    ELSE LET user_count == FirstCount(all_users, lower(username))
         IN  IF user_count = 0 THEN Frac(0, 1)
             ELSE BelowPercent(all_users, user_count)

\* round(x, 1) of the fraction x, in tenths: the nearest tenth, a half to the even one
RoundTenths(x) ==
    LET q == (x.num * 10) \div x.den
        r == x.num * 10 - q * x.den
    IN  IF 2 * r < x.den THEN q
        ELSE IF 2 * r > x.den THEN q + 1
        ELSE IF q % 2 = 0 THEN q ELSE q + 1

get_user_percentile(username, period) ==
    /\ resp = None
    /\ \E all_users \in RankTables(Matching(get_date_filter(period, now))) :
          resp' = [op |-> "percentile", username |-> username, period |-> period,
                   now |-> now, out |-> Percentile(username, all_users)]
    /\ UNCHANGED <<store, now, arg>>
    /\ UNCHANGED cacheVars

----------------------------------------------------------------------------
(* HistogramBuilder: the hourly facet of get_user_stats and get_peak_hours. *)

\* variant: the loop of line 165 stops one hour short, hour 23 is never filled
HourlyActivityShort(I) ==
    [k \in 1..HoursPerDay |->
        [hour |-> k - 1,
         count |-> IF k = HoursPerDay THEN 0
                   ELSE Cardinality({i \in I : store[i].hour = k - 1})]]

\* lines 162-166: hourly_map.get(h, 0) for h in range(24), over the events at I
HourlyActivity(I) ==
    [k \in 1..HoursPerDay |->
        [hour |-> k - 1,
         count |-> Cardinality({i \in I : store[i].hour = k - 1})]]

\* line 305: sum(counts[(start + i) % 24] for i in range(3))
WindowSum(counts, start) ==
    SumSeq([i \in 1..WINDOW |-> counts[((start + (i - 1)) % HoursPerDay) + 1]])

\* variant: line 306 with >=, the last of equal windows wins
PeakBetterOrEqual(window_sum, best_sum) == window_sum >= best_sum

\* lines 303-308: the loop over start, from `start` on
PeakBetter(window_sum, best_sum) == window_sum > best_sum

RECURSIVE PeakLoop(_, _, _)
PeakLoop(counts, start, best) ==
    IF start = HoursPerDay THEN best
    ELSE LET window_sum == WindowSum(counts, start)
         IN  PeakLoop(counts, start + 1,
                      IF PeakBetter(window_sum, best.sum)
                      THEN [sum |-> window_sum, start |-> start]
                      ELSE best)

\* variant: lines 310-311 left out
PeakResultUnchecked(best) ==
    [i \in 1..WINDOW |-> (best.start + (i - 1)) % HoursPerDay]

\* lines 310-313
PeakResult(best) ==
    IF best.sum = 0 THEN <<>>
    ELSE [i \in 1..WINDOW |-> (best.start + (i - 1)) % HoursPerDay]

get_peak_hours(hourly_activity) ==
    IF hourly_activity = <<>> THEN <<>>
    ELSE LET counts == [k \in DOMAIN hourly_activity |-> hourly_activity[k].count]
         IN  PeakResult(PeakLoop(counts, 0, [sum |-> 0, start |-> 0]))

\* lines 186-194: max() keeps the first hour with the largest count
FavoriteHour(hourly_activity, total) ==
    LET k == CHOOSE k \in DOMAIN hourly_activity :
                 /\ \A j \in DOMAIN hourly_activity :
                       hourly_activity[j].count <= hourly_activity[k].count
                 /\ \A j \in DOMAIN hourly_activity :
                       hourly_activity[j].count = hourly_activity[k].count => k <= j
    IN  IF hourly_activity[k].count > 0
        THEN [hour |-> hourly_activity[k].hour,
              count |-> hourly_activity[k].count,
              percentage |-> RoundTenths(Frac(hourly_activity[k].count * 100, total))]
        ELSE None


----------------------------------------------------------------------------
(* GrowthEngine: get_rising_stars.                                         *)

\* variant: the boost of line 471 scaled like a percentage
GrowthPercentBoost100(current_count, previous_count) ==
    IF previous_count = 0
    THEN Frac(current_count * 100, 1)
    ELSE Frac((current_count - previous_count) * 100, previous_count)

\* lines 469-473; the float quotient is kept as a fraction
GrowthPercent(current_count, previous_count) ==
    IF previous_count = 0
    THEN Frac(current_count * 10, 1)
    ELSE Frac((current_count - previous_count) * 100, previous_count)

\* line 467: previous_map.get(username, 0)
PreviousCount(previous, username) ==
    IF \E g \in previous : g.id = username
    THEN (CHOOSE g \in previous : g.id = username).count
    ELSE 0

\* lines 464-481: one row per actor of the current window, in the order of
\* the current facet
GrowthData(current, previous) ==
    [k \in DOMAIN current |->
        LET previous_count == PreviousCount(previous, current[k].id)
        IN  [username |-> current[k].id,
             current_count |-> current[k].count,
             previous_count |-> previous_count,
             growth |-> GrowthPercent(current[k].count, previous_count)]]

\* variant: an unstable descending sort, rows of equal growth change places
GrowthBeforeStrict(x, y) == FracLt(y.growth, x.growth)

\* list.sort(key=growth_percent, reverse=True): a stable sort, so rows of
\* equal growth keep their order
GrowthBefore(x, y) == ~FracLt(x.growth, y.growth)

RECURSIVE InsertRow(_, _)
InsertRow(s, x) ==
    IF s = <<>> THEN <<x>>
    ELSE IF GrowthBefore(s[1], x) THEN <<s[1]>> \o InsertRow(Tail(s), x)
    ELSE <<x>> \o s

RECURSIVE SortGrowth(_)
SortGrowth(s) ==
    IF s = <<>> THEN <<>>
    ELSE InsertRow(SortGrowth(SubSeq(s, 1, Len(s) - 1)), s[Len(s)])

\* lines 487-497: rank = i + 1 over the first `limit` rows
RankRows(top_growth) ==
    [i \in DOMAIN top_growth |->
        [rank |-> i,
         username |-> top_growth[i].username,
         current_count |-> top_growth[i].current_count,
         previous_count |-> top_growth[i].previous_count,
         growth_percent |-> RoundTenths(top_growth[i].growth)]]

\* lines 460-497, on the two facets the store returned
RisingStars(current, previous, limit) ==
    RankRows(Take(SortGrowth(GrowthData(current, previous)), limit))

\* variant: line 439 with $gt
InCurrentStrict(e, t) == e.timestamp > t - 7 * Day

\* lines 439 and 447: the two $match stages of the facet, t the clock of line 432
InCurrent(e, t) == e.timestamp >= t - 7 * Day
InPrevious(e, t) == e.timestamp >= t - 14 * Day /\ e.timestamp < t - 7 * Day

CurrentFacets(t) == Perms(GroupByUser({i \in DOMAIN store : InCurrent(store[i], t)}))
PreviousFacet(t) == GroupByUser({i \in DOMAIN store : InPrevious(store[i], t)})

\* the clock a request may have read before the store answers it
ClockReads == {t \in ClockPoints : t <= now}

get_rising_stars(limit) ==
    /\ resp = None
    /\ \E t \in ClockReads : \E current \in CurrentFacets(t) :
          resp' = [op |-> "rising_stars", limit |-> limit, now |-> t,
                   current |-> current,
                   out |-> RisingStars(current, PreviousFacet(t), limit)]
    /\ UNCHANGED <<store, now, arg>>
    /\ UNCHANGED cacheVars

----------------------------------------------------------------------------
(* get_user_rankings: top_rank, top_rank_change and rising_rank.           *)
(* (writers_rank and hours_dominated are not modelled.)                    *)

\* None for a rank (lines 654, 676, 687)
Absent == 0

\* variant: the place counted from 0 (line 657 without the + 1)
RankOfZeroBased(tbl, name) ==
    IF \E i \in DOMAIN tbl : tbl[i].id = name
    THEN (CHOOSE i \in DOMAIN tbl :
            /\ tbl[i].id = name
            /\ \A j \in DOMAIN tbl : tbl[j].id = name => i <= j) - 1
    ELSE Absent

\* lines 654-658 and 676-680: the 1-based place of the first row named `name`
RankOf(tbl, name) ==
    IF \E i \in DOMAIN tbl : tbl[i].id = name
    THEN CHOOSE i \in DOMAIN tbl :
            /\ tbl[i].id = name
            /\ \A j \in DOMAIN tbl : tbl[j].id = name => i <= j
    ELSE Absent

\* variant: line 683 with the operands exchanged
RankChangeReversed(top_rank, prev_rank) == top_rank - prev_rank

\* lines 661-683
RankChange(top_rank, prev_rank) == prev_rank - top_rank

TopRankChange(top_rank, prev_users, name) ==
    IF top_rank = Absent THEN None
    ELSE LET prev_rank == RankOf(prev_users, name)
         IN  IF prev_rank = Absent THEN None
             ELSE [value |-> RankChange(top_rank, prev_rank)]

\* lines 686-691: the rank of the first rising-stars row named `name`
RISING_LIMIT == 100
RisingRank(rising_entries, name) ==
    IF \E i \in DOMAIN rising_entries : rising_entries[i].username = name
    THEN rising_entries[CHOOSE i \in DOMAIN rising_entries :
            /\ rising_entries[i].username = name
            /\ \A j \in DOMAIN rising_entries :
                  rising_entries[j].username = name => i <= j].rank
    ELSE Absent

\* lines 654-691 on what the store returned: the period's table, the table
\* of the prior 7-day window and the current facet of get_rising_stars
UserRankings(username, all_users, prev_users, rising_entries) ==
    LET top_rank == RankOf(all_users, lower(username))
    IN  [top_rank |-> top_rank,
         top_rank_change |-> TopRankChange(top_rank, prev_users, lower(username)),
         rising_rank |-> RisingRank(rising_entries, lower(username))]

PrevTables(t) == RankTables({i \in DOMAIN store : InPrevious(store[i], t)})

get_user_rankings(username, period) ==
    /\ resp = None
    /\ \E all_users \in RankTables(Matching(get_date_filter(period, now))) :
       \E prev_users \in PrevTables(now) :
       \E current \in CurrentFacets(now) :
          resp' = [op |-> "rankings", username |-> username, period |-> period,
                   now |-> now, all_users |-> all_users, prev_users |-> prev_users,
                   out |-> UserRankings(username, all_users, prev_users,
                              RisingStars(current, PreviousFacet(now), RISING_LIMIT))]
    /\ UNCHANGED <<store, now, arg>>
    /\ UNCHANGED cacheVars

----------------------------------------------------------------------------
(* get_user_stats: the facet query, the histogram and the fields derived   *)
(* from it (the rival, the replies, the emotes and the recent messages     *)
(* are not modelled).                                                      *)

\* lines 128-130: {"username": username.lower()} and the date filter
UserMatching(username, f) ==
    {i \in Matching(f) : store[i].username = lower(username)}

\* lines 135 and 156: the $count facet
Total(I) == Cardinality(I)

NotFound == [op |-> "not_found"]

\* lines 162-166, 179 and 186-194: what the facet alone decides
Histogram(username, period, I) ==
    LET hourly_activity == HourlyActivity(I)
    IN  [username |-> lower(username),
         period |-> period,
         total_messages |-> Total(I),
         hourly_activity |-> hourly_activity,
         peak_hours |-> get_peak_hours(hourly_activity),
         favorite_hour |-> FavoriteHour(hourly_activity, Total(I))]

\* lines 178, 182 and 196-212
UserStats(histogram, percentile, rankings) ==
    histogram @@ [percentile |-> RoundTenths(percentile), rankings |-> rankings]

get_user_stats(username, period) ==
    /\ resp = None
    /\ \E I \in {UserMatching(username, get_date_filter(period, now))} :
          IF Total(I) = 0
          THEN resp' = [op |-> "user_stats", username |-> username,
                        period |-> period, now |-> now, out |-> NotFound]
          ELSE \E histogram \in {Histogram(username, period, I)} :
               \E all_users \in RankTables(Matching(get_date_filter(period, now))) :
               \E prev_users \in PrevTables(now) :
               \E current \in CurrentFacets(now) :
                  resp' = [op |-> "user_stats", username |-> username,
                           period |-> period, now |-> now,
                           out |-> UserStats(histogram,
                                      Percentile(username, all_users),
                                      UserRankings(username, all_users, prev_users,
                                          RisingStars(current, PreviousFacet(now),
                                                      RISING_LIMIT)))]
    /\ UNCHANGED <<store, now, arg>>
    /\ UNCHANGED cacheVars

----------------------------------------------------------------------------
(* HistogramBuilder: get_chat_activity_today, lines 725-753, and           *)
(* get_overall_hourly_activity, lines 756-780.                             *)

\* lines 745-750 and 772-777: the first hour with the largest count, hour 0
\* with count 0 when no hour has one
PeakHour(activity) ==
    IF \A j \in DOMAIN activity : activity[j].count = 0
    THEN [peak_hour |-> 0, peak_count |-> 0]
    ELSE LET k == CHOOSE k \in DOMAIN activity :
                      /\ \A j \in DOMAIN activity : activity[j].count <= activity[k].count
                      /\ \A j \in DOMAIN activity :
                             activity[j].count = activity[k].count => k <= j
         IN  [peak_hour |-> activity[k].hour, peak_count |-> activity[k].count]

\* variant: the list holds only the hours the aggregation returned
ActivityUnfilled(I) ==
    LET hours == {store[i].hour : i \in I}
        rising == Rising(hours)
    IN  [k \in DOMAIN rising |->
            [hour |-> rising[k],
             count |-> Cardinality({i \in I : store[i].hour = rising[k]})]]

\* lines 738-742 and 765-769: hourly_map.get(h, 0) for h in range(24)
Activity(I) == HourlyActivity(I)

\* lines 738-753 and 765-780 on the events at I
ActivityResult(I) ==
    LET activity == Activity(I)
    IN  [activity |-> activity,
         total |-> SumSeq([k \in DOMAIN activity |-> activity[k].count])]
            @@ PeakHour(activity)

get_chat_activity_today ==
    /\ resp = None
    /\ resp' = [op |-> "chat_activity_today", now |-> now,
                out |-> ActivityResult({i \in DOMAIN store :
                                           store[i].timestamp >= now - Day})]
    /\ UNCHANGED <<store, now, arg>>
    /\ UNCHANGED cacheVars

get_overall_hourly_activity ==
    /\ resp = None
    /\ resp' = [op |-> "overall_hourly_activity", now |-> now,
                out |-> ActivityResult(DOMAIN store)]
    /\ UNCHANGED <<store, now, arg>>
    /\ UNCHANGED cacheVars

----------------------------------------------------------------------------
(* EmoteFrequencyCounter: the process-wide cache of get_7tv_emotes.  A     *)
(* dict is a function from names to ids, the empty dict the empty          *)
(* function; None is NoCache.  A caller is one running coroutine of        *)
(* get_7tv_emotes; it is suspended at each of the two awaited GETs and at  *)
(* the exit of the `async with` block.                                     *)

Callers == {"r1", "r2"}
NoCache == [set |-> FALSE]
Cached(v) == [set |-> TRUE, val |-> v]
EmptyDict == <<>>

\* what the channel's emote set and the global emote set may hold
\* (a name is the sequence of its characters)
ChannelEmotes == {(<<"K">> :> "c1"), (<<"K">> :> "c2") @@ (<<"k">> :> "c3")}
GlobalEmotes == {(<<"k">> :> "g1")}

\* what a GET, or the reading of its answer, may raise: httpx.TimeoutException,
\* another httpx.HTTPError such as httpx.ConnectError, and the KeyError or
\* ValueError of an answer that is not the expected JSON
FetchErrors == {"TimeoutException", "ConnectError", "KeyError"}

\* variant: the clause of lines 80-81 is missing, only the timeout is caught
CaughtTimeoutOnly(error) == error = "TimeoutException"

\* lines 78-81: `except httpx.TimeoutException` and `except Exception`;
\* every error above is an Exception
Caught(error) == error = "TimeoutException" \/ error \in FetchErrors

\* the instants the clock is observed at around the expiry of the cache
CachePoints == {T0, T0 + CACHE_TTL - 1, T0 + CACHE_TTL, T0 + 2 * CACHE_TTL}
CacheTick == Advance(CachePoints)

\* lines 56-57
Fresh(t) ==
    /\ emotes_cache.set
    /\ cache_time.set
    /\ t - cache_time.val < CACHE_TTL

\* lines 55-61: the cache hit returns, the miss starts the channel GET
Call(p) ==
    /\ pc[p] = "idle"
    /\ call_now' = [call_now EXCEPT ![p] = now]
    /\ old_cache' = [old_cache EXCEPT ![p] = emotes_cache]
    /\ failed' = [failed EXCEPT ![p] = FALSE]
    /\ IF Fresh(now)
       THEN /\ ret' = [ret EXCEPT ![p] = emotes_cache]
            /\ pc' = [pc EXCEPT ![p] = "done"]
            /\ UNCHANGED emotes
       ELSE /\ emotes' = [emotes EXCEPT ![p] = EmptyDict]
            /\ pc' = [pc EXCEPT ![p] = "channel"]
            /\ UNCHANGED ret
    /\ UNCHANGED <<store, now, resp, arg, emotes_cache, cache_time>>

\* for emote in data: emotes[emote["name"]] = emote["id"]
Update(dict, data) == data @@ dict

\* lines 65-69: the channel GET answers 200 with `data`, ...
ChannelOk(p, data) ==
    /\ pc[p] = "channel"
    /\ emotes' = [emotes EXCEPT ![p] = Update(emotes[p], data)]
    /\ pc' = [pc EXCEPT ![p] = "global"]
    /\ UNCHANGED <<store, now, resp, arg, emotes_cache, cache_time, call_now,
                   failed, old_cache, ret>>

\* ... answers another status, ...
ChannelStatus(p) ==
    /\ pc[p] = "channel"
    /\ pc' = [pc EXCEPT ![p] = "global"]
    /\ UNCHANGED <<store, now, resp, arg, emotes_cache, cache_time, call_now,
                   emotes, failed, old_cache, ret>>

\* ... or raises `error`: a caught error leaves the try block for line 83,
\* another one would leave the coroutine
ChannelError(p, error) ==
    /\ pc[p] = "channel"
    /\ IF Caught(error)
       THEN /\ failed' = [failed EXCEPT ![p] = TRUE]
            /\ pc' = [pc EXCEPT ![p] = "store"]
       ELSE /\ pc' = [pc EXCEPT ![p] = "raised"]
            /\ UNCHANGED failed
    /\ UNCHANGED <<store, now, resp, arg, emotes_cache, cache_time, call_now,
                   emotes, old_cache, ret>>

\* lines 72-76: the same for the global GET
GlobalOk(p, data) ==
    /\ pc[p] = "global"
    /\ emotes' = [emotes EXCEPT ![p] = Update(emotes[p], data)]
    /\ pc' = [pc EXCEPT ![p] = "store"]
    /\ UNCHANGED <<store, now, resp, arg, emotes_cache, cache_time, call_now,
                   failed, old_cache, ret>>

GlobalStatus(p) ==
    /\ pc[p] = "global"
    /\ pc' = [pc EXCEPT ![p] = "store"]
    /\ UNCHANGED <<store, now, resp, arg, emotes_cache, cache_time, call_now,
                   emotes, failed, old_cache, ret>>

GlobalError(p, error) ==
    /\ pc[p] = "global"
    /\ IF Caught(error)
       THEN /\ failed' = [failed EXCEPT ![p] = TRUE]
            /\ pc' = [pc EXCEPT ![p] = "store"]
       ELSE /\ pc' = [pc EXCEPT ![p] = "raised"]
            /\ UNCHANGED failed
    /\ UNCHANGED <<store, now, resp, arg, emotes_cache, cache_time, call_now,
                   emotes, old_cache, ret>>

\* lines 83-85, reached on every path that left the try block
StoredCache(p) == Cached(emotes[p])

\* variant: line 84 reads the clock again instead of storing the `now` of line 55
StoredTimeNow(p) == Cached(now)

\* line 84
StoredTime(p) == Cached(call_now[p])

Store(p) ==
    /\ pc[p] = "store"
    /\ emotes_cache' = StoredCache(p)
    /\ cache_time' = StoredTime(p)
    /\ ret' = [ret EXCEPT ![p] = Cached(emotes[p])]
    /\ pc' = [pc EXCEPT ![p] = "done"]
    /\ UNCHANGED <<store, now, resp, arg, call_now, emotes, failed, old_cache>>

\* the caller takes the returned dict; the coroutine and its locals are gone
Return(p) ==
    /\ pc[p] = "done"
    /\ pc' = [pc EXCEPT ![p] = "idle"]
    /\ call_now' = [call_now EXCEPT ![p] = T0]
    /\ emotes' = [emotes EXCEPT ![p] = EmptyDict]
    /\ failed' = [failed EXCEPT ![p] = FALSE]
    /\ old_cache' = [old_cache EXCEPT ![p] = NoCache]
    /\ ret' = [ret EXCEPT ![p] = NoCache]
    /\ UNCHANGED <<store, now, resp, arg, emotes_cache, cache_time>>

----------------------------------------------------------------------------
(* SimilarityEngine: get_rival, lines 341-378, on the pool the store       *)
(* returned: one row per actor with the hours it wrote in and its total,   *)
(* rows by falling total.  (display_name is not modelled.)                 *)

\* other_hours.get(h, 0)
CountAt(hours, h) ==
    IF \E g \in hours : g.hour = h
    THEN (CHOOSE g \in hours : g.hour = h).count
    ELSE 0

\* line 360
OtherVector(hours) == [k \in 1..HoursPerDay |-> CountAt(hours, k - 1)]

\* sum(s[lo:hi]), by halves
RECURSIVE SumRange(_, _, _)
SumRange(s, lo, hi) ==
    IF lo > hi THEN 0
    ELSE IF lo = hi THEN s[lo]
    ELSE LET mid == (lo + hi) \div 2
         IN  SumRange(s, lo, mid) + SumRange(s, mid + 1, hi)

\* sum(x * x for x in vector)
SumSquares(v) == SumRange([k \in DOMAIN v |-> v[k] * v[k]], 1, Len(v))

\* line 367: zip stops at the shorter vector
DotProduct(u, v) ==
    SumRange([k \in 1..Min(Len(u), Len(v)) |-> u[k] * v[k]], 1, Min(Len(u), Len(v)))

Hundred == FloatOfInt(100)

\* line 368
Similarity(dot_product, user_magnitude, other_magnitude) ==
    FloatMul(FloatDiv(FloatOfInt(dot_product),
                      FloatMul(user_magnitude, other_magnitude)),
             Hundred)

\* best_similarity = -1 and best_rival = None before the loop
NoBest == [set |-> FALSE, rival |-> None]

\* line 370; every similarity is above the initial -1
SimilarityBetter(similarity, best) ==
    ~best.set \/ FloatLt(best.similarity, similarity)

\* variant: line 375 cuts the score to one decimal instead of rounding it
ScoreTruncated(similarity) ==
    IF similarity = FloatZero THEN 0
    ELSE BigToInt(Shr(BigMulSmall(similarity.m, 10), 0 - similarity.e))

\* line 375: round(similarity, 1), in tenths
Score(similarity) == RoundTenthsFloat(similarity)

\* lines 354-376: the loop over the pool, from row k on
RECURSIVE RivalLoop(_, _, _, _, _, _)
RivalLoop(all_users, k, name, user_vector, user_magnitude, best) ==
    IF k > Len(all_users) THEN best
    ELSE IF all_users[k].id = name
    THEN RivalLoop(all_users, k + 1, name, user_vector, user_magnitude, best)
    ELSE LET other_vector == OtherVector(all_users[k].hours)
             other_magnitude == sqrt_of[SumSquares(other_vector)]
         IN  IF other_magnitude = FloatZero
             THEN RivalLoop(all_users, k + 1, name, user_vector, user_magnitude, best)
             ELSE LET similarity == Similarity(DotProduct(user_vector, other_vector),
                                               user_magnitude, other_magnitude)
                  IN  IF SimilarityBetter(similarity, best)
                      THEN RivalLoop(all_users, k + 1, name, user_vector, user_magnitude,
                               [set |-> TRUE,
                                similarity |-> similarity,
                                rival |-> [username |-> all_users[k].id,
                                           similarity_score |-> Score(similarity)]])
                      ELSE RivalLoop(all_users, k + 1, name, user_vector,
                                     user_magnitude, best)

get_rival(username, hourly_pattern, all_users) ==
    IF all_users = <<>> THEN None
    ELSE LET user_vector == [k \in DOMAIN hourly_pattern |-> hourly_pattern[k].count]
             user_magnitude == sqrt_of[SumSquares(user_vector)]
         IN  IF user_magnitude = FloatZero THEN None
             ELSE RivalLoop(all_users, 1, lower(username), user_vector,
                            user_magnitude, NoBest).rival

----------------------------------------------------------------------------
(* RankTable: get_leaderboard, lines 215-255.  The handler awaits the two  *)
(* aggregations one after the other; between the two the request is kept   *)
(* in `arg` and the store may grow.                                        *)

\* variant: line 227 without the $limit stage, to_list(limit) of line 230
\* taken for a hint only
LeaderboardRowsUnlimited(I, limit) ==
    {s \in Perms(GroupByUser(I)) :
        \A i, j \in DOMAIN s : i < j => s[i].count >= s[j].count}

\* lines 219-230: $group, $sort by count and $limit, every order the store
\* may return, ties in any order
LeaderboardRows(I, limit) ==
    {Take(s, limit) :
        s \in {p \in Perms(GroupByUser(I)) :
                  \A i, j \in DOMAIN p : i < j => p[i].count >= p[j].count}}

\* lines 216-230: the first aggregation
LeaderboardQuery(period, limit) ==
    /\ resp = None
    /\ arg = None
    /\ \E results \in LeaderboardRows(Matching(get_date_filter(period, now)), limit) :
          arg' = [op |-> "leaderboard_call", period |-> period, limit |-> limit,
                  now |-> now, seen |-> Len(store), results |-> results]
    /\ UNCHANGED <<store, now, resp>>
    /\ UNCHANGED cacheVars

\* lines 241-249
LeaderboardEntries(results) ==
    [i \in DOMAIN results |->
        [rank |-> i, username |-> results[i].id, message_count |-> results[i].count]]

\* lines 232-255: the second aggregation, on the filter of line 216, and
\* the response
LeaderboardTotals ==
    /\ resp = None
    /\ arg.op = "leaderboard_call"
    /\ LET I == Matching(get_date_filter(arg.period, arg.now))
       IN  resp' = [op |-> "leaderboard", period |-> arg.period, limit |-> arg.limit,
                    now |-> arg.now, seen |-> arg.seen,
                    total_users |-> Cardinality({store[i].username : i \in I}),
                    total_messages |-> Cardinality(I),
                    leaderboard |-> LeaderboardEntries(arg.results)]
    /\ arg' = None
    /\ UNCHANGED <<store, now>>
    /\ UNCHANGED cacheVars

----------------------------------------------------------------------------
(* ReplyCorrelator: get_top_replies, lines 381-427.                        *)

\* the subsets of S that leave n of its elements out, n <= Cardinality(S)
RECURSIVE Without(_, _)
Without(S, n) ==
    IF n = 0 THEN {S}
    ELSE UNION {Without(S \ {x}, n - 1) : x \in S}

\* what .limit(n) lets through of the documents at I: all of them, or n of
\* them when there are more (the query has no sort)
Limited(I, n) ==
    IF Cardinality(I) <= n THEN {I} ELSE Without(I, Cardinality(I) - n)

\* line 391, .sort("timestamp", -1).limit(MAX_MESSAGES_QUERY): the latest
\* messages of the subject, as the sets of positions the store may keep
UserMessages(name, f) ==
    LET all == {i \in Matching(f) : store[i].username = name}
    IN  {kept \in Limited(all, MAX_MESSAGES_QUERY) :
            \A i \in kept, j \in all \ kept : store[i].timestamp >= store[j].timestamp}

\* variant: line 405 with $gt, a message exactly 10 seconds before is left out
InReplyWindowStrict(name, m, j) ==
    /\ store[j].username # name
    /\ store[j].timestamp > store[m].timestamp - REPLY_WINDOW
    /\ store[j].timestamp < store[m].timestamp

\* the filter of lines 403-406 on the event at position j, for the subject's
\* message at position m
InReplyWindow(name, m, j) ==
    /\ store[j].username # name
    /\ store[j].timestamp >= store[m].timestamp - REPLY_WINDOW
    /\ store[j].timestamp < store[m].timestamp

\* lines 403-406: what the store may return for the subject's message at m
PreviousMessages(name, m) ==
    Limited({j \in DOMAIN store : InReplyWindow(name, m, j)}, PREVIOUS_LIMIT)

\* one answer of the store per message of the subject
PreviousChoices(name, user_messages) ==
    LET answers == UNION {PreviousMessages(name, m) : m \in user_messages}
    IN  {previous \in [user_messages -> answers] :
            \A m \in user_messages : previous[m] \in PreviousMessages(name, m)}

\* the largest element of a non-empty set of numbers
MaxOf(S) == CHOOSE x \in S : \A y \in S : y <= x

\* lines 408-415: reply_counts after the loop of line 398, which visits the
\* subject's messages latest first; `latest` is the instant of the message
\* whose turn inserted the key
ReplyCounts(previous) ==
    LET others == {store[j].username : j \in UNION {previous[m] : m \in DOMAIN previous}}
    IN  {[username |-> u,
          count |-> Cardinality({<<m, j>> \in (DOMAIN previous) \X (DOMAIN store) :
                                    j \in previous[m] /\ store[j].username = u}),
          latest |-> MaxOf({store[m].timestamp : m \in {x \in DOMAIN previous :
                               \E j \in previous[x] : store[j].username = u}})] :
        u \in others}

\* line 418: sorted(..., reverse=True) keeps equal counts in the order of
\* insertion; keys inserted at messages of the same instant come in the
\* order the store returned the messages in
SortedReplies(reply_counts) ==
    {s \in Perms(reply_counts) :
        \A i, j \in DOMAIN s : i < j =>
            \/ s[i].count > s[j].count
            \/ s[i].count = s[j].count /\ s[i].latest >= s[j].latest}

\* lines 420-427
ReplyTargets(sorted_replies) ==
    [k \in DOMAIN sorted_replies |->
        [username |-> sorted_replies[k].username,
         reply_count |-> sorted_replies[k].count]]

get_top_replies(username, period, limit) ==
    /\ resp = None
    /\ \E user_messages \in UserMessages(lower(username), get_date_filter(period, now)) :
          \E previous \in PreviousChoices(lower(username), user_messages) :
              \E sorted_replies \in SortedReplies(ReplyCounts(previous)) :
                  resp' = [op |-> "replies", username |-> username, period |-> period,
                           now |-> now,
                           out |-> ReplyTargets(Take(sorted_replies, limit))]
    /\ UNCHANGED <<store, now, arg>>
    /\ UNCHANGED cacheVars

\* the instants of a short exchange: 20, 10 and 5 seconds before the last
\* message and at the same second, and the same second a day later, when
\* the last message lies on the border of the "day" window
ReplyClock == {T0, T0 + 10, T0 + 15, T0 + 20, T0 + Day + 20}

ReplyTick == Advance(ReplyClock)

ReplyPeriods == {"day", "all"}

\* a busy chat: n messages of `author` within one second
Burst(author, t, n) ==
    [k \in 1..n |-> [username |-> lower(author), timestamp |-> t, hour |-> BrtHour(t)]]

\* stores in which PREVIOUS_LIMIT or one more messages of others precede a
\* message of "C" by 5 seconds
BusyStores ==
    {Burst("a", T0 + 15, x) \o Burst("b", T0 + 15, n - x) \o Burst("C", T0 + 20, 1) :
        x \in 0..1, n \in {PREVIOUS_LIMIT, PREVIOUS_LIMIT + 1}}

----------------------------------------------------------------------------
(* EmoteFrequencyCounter: count_emotes_in_messages, lines 88-108, from the *)
(* dict get_7tv_emotes returned at line 90 on.  A text, and an emote name, *)
(* is the sequence of its characters.                                      *)

Whitespace == {" "}

\* the positions of `text` at which a word starts
WordStarts(text) ==
    {i \in DOMAIN text :
        text[i] \notin Whitespace /\ (i = 1 \/ text[i - 1] \in Whitespace)}

\* the word of `text` that starts at position i
WordAt(text, i) ==
    SubSeq(text, i, CHOOSE j \in i..Len(text) :
                        /\ \A k \in i..j : text[k] \notin Whitespace
                        /\ j = Len(text) \/ text[j + 1] \in Whitespace)

\* line 95: message.split()
split(text) ==
    LET starts == Rising(WordStarts(text))
    IN  [k \in DOMAIN starts |-> WordAt(text, starts[k])]

\* lines 98-99 on the dict `counts`, kept as its items in order of insertion
CountWord(counts, word) ==
    IF \E i \in DOMAIN counts : counts[i].name = word
    THEN [i \in DOMAIN counts |->
             IF counts[i].name = word
             THEN [name |-> word, count |-> counts[i].count + 1]
             ELSE counts[i]]
    ELSE Append(counts, [name |-> word, count |-> 1])

\* lines 96-99: the words from position k on
RECURSIVE WordLoop(_, _, _, _)
WordLoop(emotes_dict, words, k, counts) ==
    IF k > Len(words) THEN counts
    ELSE IF words[k] \in DOMAIN emotes_dict
    THEN WordLoop(emotes_dict, words, k + 1, CountWord(counts, words[k]))
    ELSE WordLoop(emotes_dict, words, k + 1, counts)

\* lines 94-99: the messages from position k on
RECURSIVE MessageLoop(_, _, _, _)
MessageLoop(emotes_dict, messages, k, counts) ==
    IF k > Len(messages) THEN counts
    ELSE MessageLoop(emotes_dict, messages, k + 1,
                     WordLoop(emotes_dict, split(messages[k]), 1, counts))

\* variant: line 102 sorts by rising count and turns the list round, which
\* turns equal counts round as well
SortedEmotesReversed(counts) ==
    [k \in DOMAIN counts |->
        counts[CHOOSE i \in DOMAIN counts :
                   Cardinality({j \in DOMAIN counts :
                       \/ counts[j].count > counts[i].count
                       \/ counts[j].count = counts[i].count /\ j > i}) = k - 1]]

\* line 102: sorted(counts.items(), key=lambda x: x[1], reverse=True), a
\* stable sort: equal counts keep the order of insertion
SortedEmotes(counts) ==
    [k \in DOMAIN counts |->
        counts[CHOOSE i \in DOMAIN counts :
                   Cardinality({j \in DOMAIN counts :
                       \/ counts[j].count > counts[i].count
                       \/ counts[j].count = counts[i].count /\ j < i}) = k - 1]]

\* lines 91-108
CountEmotes(emotes_dict, messages, limit) ==
    IF emotes_dict = EmptyDict THEN <<>>
    ELSE LET sorted_emotes == Take(SortedEmotes(MessageLoop(emotes_dict, messages, 1, <<>>)),
                                   limit)
         IN  [k \in DOMAIN sorted_emotes |->
                 [emote_name |-> sorted_emotes[k].name,
                  emote_id |-> emotes_dict[sorted_emotes[k].name],
                  count |-> sorted_emotes[k].count]]

\* the characters of the drawn texts, and the drawn catalogs
TextChars == {"K", "k", " "}
Texts(n) == UNION {[1..len -> TextChars] : len \in 0..n}
DrawnCatalogs ==
    {EmptyDict,
     (<<"K">> :> "e1"),
     (<<"K">> :> "e1") @@ (<<"k">> :> "e2"),
     (<<"K">> :> "e1") @@ (<<"k">> :> "e2") @@ (<<"K", "k">> :> "e3")}

\* the message lists of at most MaxMessages texts and MaxChars characters
RECURSIVE MessageLists(_, _)
MessageLists(count, chars) ==
    IF count = 0 THEN {<<>>}
    ELSE {<<>>} \cup
         UNION {{<<text>> \o rest : rest \in MessageLists(count - 1, chars - Len(text))} :
                   text \in Texts(chars)}

DrawnEmoteInputs ==
    {[op |-> "emote_input", emotes |-> e, messages |-> m, limit |-> l] :
        e \in DrawnCatalogs, m \in MessageLists(MaxMessages, MaxChars),
        l \in 1..MaxLimit}

count_emotes_in_messages ==
    /\ resp = None
    /\ arg.op = "emote_input"
    /\ resp' = [op |-> "emotes", emotes |-> arg.emotes, messages |-> arg.messages,
                limit |-> arg.limit,
                out |-> CountEmotes(arg.emotes, arg.messages, arg.limit)]
    /\ arg' = None
    /\ UNCHANGED <<store, now>>
    /\ UNCHANGED cacheVars

----------------------------------------------------------------------------
(* get_peak_hours and the growth rows of get_rising_stars on drawn inputs. *)

BinCounts == {1, 10}

ZeroHistogram == [k \in 1..HoursPerDay |-> [hour |-> k - 1, count |-> 0]]

NonEmptyBins(h) == {k \in DOMAIN h : h[k].count # 0}

\* one more hour of the drawn histogram gets a count
FillBin(k, c) ==
    /\ resp = None
    /\ arg.op = "histogram"
    /\ arg.hourly_activity # <<>>
    /\ arg.hourly_activity[k].count = 0
    /\ Cardinality(NonEmptyBins(arg.hourly_activity)) < MaxBins
    /\ arg' = [arg EXCEPT !.hourly_activity[k].count = c]
    /\ UNCHANGED <<store, now, resp>>
    /\ UNCHANGED cacheVars

PeakHours ==
    /\ resp = None
    /\ arg.op = "histogram"
    /\ resp' = [op |-> "peak_hours", hourly_activity |-> arg.hourly_activity,
                out |-> get_peak_hours(arg.hourly_activity)]
    /\ UNCHANGED <<store, now, arg>>
    /\ UNCHANGED cacheVars

\* the facets drawn for one actor of the current window: the actor already
\* there in the previous window, another actor there, or nobody
DrawnFacets ==
    {[op |-> "facets", current |-> <<[id |-> "a", count |-> c]>>, previous |-> prev] :
        c \in 1..MaxCount,
        prev \in {{}} \cup {{[id |-> u, count |-> n]} : u \in {"a", "b"}, n \in 1..MaxCount}}

Growth ==
    /\ resp = None
    /\ arg.op = "facets"
    /\ \E limit \in 1..MaxLimit :
          resp' = [op |-> "growth", current |-> arg.current, previous |-> arg.previous,
                   limit |-> limit,
                   growth_data |-> GrowthData(arg.current, arg.previous),
                   out |-> RisingStars(arg.current, arg.previous, limit)]
    /\ UNCHANGED <<store, now, arg>>
    /\ UNCHANGED cacheVars

\* the hours the drawn patterns and pool rows have counts in
FirstHour == 0
LastHour == HoursPerDay - 1

\* a subject pattern: x messages in the first hour and y in the last
Pattern(x, y) ==
    [k \in 1..HoursPerDay |->
        [hour |-> k - 1,
         count |-> IF k - 1 = FirstHour THEN x ELSE IF k - 1 = LastHour THEN y ELSE 0]]

DrawnPatterns == {Pattern(x, y) : x \in 0..1, y \in 0..MaxPatternCount}

\* a pool row as the two $group stages of lines 324-334 build it
PoolRow(id, x, y) ==
    [id |-> id,
     hours |-> {[hour |-> FirstHour, count |-> x] : i \in 1..Min(x, 1)}
                  \cup {[hour |-> LastHour, count |-> y] : i \in 1..Min(y, 1)},
     total |-> x + y]

\* the rows of the other actors, and the row of the subject
OtherRows ==
    {PoolRow(id, x, y) : id \in {"a", "b"},
                         x \in 0..MaxRowCount, y \in 0..1} \ {PoolRow(id, 0, 0) : id \in {"a", "b"}}
SubjectRows == {PoolRow("c", 1, 0)}

\* lines 335-339: the pools the store may return, one row per actor, rows
\* by falling total and rows of equal total in any order
DrawnPools ==
    {Take(p, MAX_USERS_QUERY) :
        p \in {p \in UNION {[1..n -> OtherRows \cup SubjectRows] : n \in 0..3} :
                  /\ \A i, j \in DOMAIN p : p[i].id = p[j].id => i = j
                  /\ \A i, j \in DOMAIN p : i < j => p[i].total >= p[j].total}}

DrawnRivalInputs ==
    {[op |-> "rival_input", hourly_pattern |-> h, all_users |-> p] :
        h \in DrawnPatterns, p \in DrawnPools}

\* get_user_stats line 180 hands the pattern over; the request named "C"
Rival ==
    /\ resp = None
    /\ arg.op = "rival_input"
    /\ \E username \in {"C"} :
          resp' = [op |-> "rival", username |-> username,
                   hourly_pattern |-> arg.hourly_pattern,
                   all_users |-> arg.all_users,
                   out |-> get_rival(username, arg.hourly_pattern, arg.all_users)]
    /\ UNCHANGED <<store, now, arg>>
    /\ UNCHANGED cacheVars

----------------------------------------------------------------------------
(* get_user_stats, lines 126-212, one awaited call at a time.  The locals  *)
(* of the running request are kept in `arg`: `now` is the clock read at    *)
(* line 127, `first` the date filter built from it, `date_filter` the      *)
(* filter of the sub-query that ran last and `stage` the call awaited      *)
(* next.  (top_emotes is the lookup of the messages and the call of        *)
(* get_7tv_emotes; the message texts are not modelled.)                    *)

\* what an awaited query of the store answers with: its documents ("none"
\* raised) or an error of the driver, pymongo.errors.ExecutionTimeout here
StoreErrors == {"ExecutionTimeout"}
StoreAnswers == {"none"} \cup StoreErrors

\* the methods stats_service.py calls on db.messages, and the stages of the
\* pipelines it builds
CollectionCalls == {"aggregate", "find"}

\* variant: the facet pipeline of lines 132-150 ends with an $out stage
PipelineStagesOut ==
    {"$match", "$group", "$sort", "$limit", "$facet", "$count", "$project", "$out"}

PipelineStages == {"$match", "$group", "$sort", "$limit", "$facet", "$count", "$project"}

\* the calls and the stages of the store that write
WritingCalls == {"insert_one", "insert_many", "update_one", "update_many",
                 "replace_one", "delete_one", "delete_many", "drop"}
WritingStages == {"$out", "$merge"}

\* the collection after a query of the service: a cursor and a reading
\* pipeline leave it as it is; a writing one would replace the stored
\* events by its own documents
Queried ==
    IF CollectionCalls \cap WritingCalls = {} /\ PipelineStages \cap WritingStages = {}
    THEN store
    ELSE <<>>

\* an exception that leaves a coroutine
Raised(error) == [op |-> "raised", error |-> error]

\* variant: the awaited calls are wrapped in `try: ... except Exception: return None`
PropagatedAsNone(error) == NotFound

\* get_user_stats has no try statement: what an awaited call raises leaves
\* get_user_stats as it is
Propagated(error) == Raised(error)

\* what the route receives: `stage` is the awaited call that ended the
\* request and `error` what the store raised in it
StatsOutcome(username, period, t, stage, error, out) ==
    [op |-> "user_stats", username |-> username, period |-> period, now |-> t,
     stage |-> stage, error |-> error, out |-> out]

\* the request is suspended at the awaited call `stage`
Awaiting(stage) ==
    /\ resp = None
    /\ arg.op = "user_stats_call"
    /\ arg.stage = stage

\* the awaited call raises
Abort(stage, error) ==
    /\ resp' = StatsOutcome(arg.username, arg.period, arg.now, stage, error,
                            Propagated(error))
    /\ arg' = None

\* lines 127-166: the filter, the facet aggregation and the histogram
user_stats_facet(username, period, answer) ==
    /\ resp = None
    /\ arg = None
    /\ LET date_filter == get_date_filter(period, now)
           I == UserMatching(username, date_filter)
       IN  IF answer # "none"
           THEN /\ resp' = StatsOutcome(username, period, now, "facet", answer,
                                        Propagated(answer))
                /\ arg' = arg
           ELSE IF Total(I) = 0
           THEN /\ resp' = StatsOutcome(username, period, now, "facet", answer, NotFound)
                /\ arg' = arg
           ELSE /\ arg' = [op |-> "user_stats_call", username |-> username,
                           period |-> period, now |-> now, first |-> date_filter,
                           date_filter |-> date_filter, stage |-> "recent",
                           histogram |-> Histogram(username, period, I),
                           recent_messages |-> <<>>, percentile |-> Frac(0, 1),
                           rival |-> None, top_replies |-> <<>>, rankings |-> None]
                /\ resp' = resp
    /\ store' = Queried
    /\ UNCHANGED now
    /\ UNCHANGED cacheVars

RECENT_LIMIT == 10

\* lines 168-175: the instants of the latest messages of the actor,
\* whatever the period
RecentMessages(username) ==
    LET mine == {i \in DOMAIN store : store[i].username = lower(username)}
        latest_first == CHOOSE s \in Perms(mine) :
                            \A i, j \in DOMAIN s : i < j =>
                                store[s[i]].timestamp >= store[s[j]].timestamp
    IN  [k \in 1..Min(Cardinality(mine), RECENT_LIMIT) |-> store[latest_first[k]].timestamp]

user_stats_recent(answer) ==
    /\ Awaiting("recent")
    /\ IF answer # "none"
       THEN Abort("recent", answer)
       ELSE /\ arg' = [arg EXCEPT !.stage = "percentile",
                                  !.recent_messages = RecentMessages(arg.username)]
            /\ resp' = resp
    /\ store' = Queried
    /\ UNCHANGED now
    /\ UNCHANGED cacheVars

\* line 178: get_user_percentile reads the clock at line 260
user_stats_percentile(answer) ==
    /\ Awaiting("percentile")
    /\ LET date_filter == get_date_filter(arg.period, now)
       IN  IF answer # "none"
           THEN Abort("percentile", answer)
           ELSE /\ \E all_users \in RankTables(Matching(date_filter)) :
                      arg' = [arg EXCEPT !.stage = "rival",
                                         !.date_filter = date_filter,
                                         !.percentile = Percentile(arg.username, all_users)]
                /\ resp' = resp
    /\ store' = Queried
    /\ UNCHANGED now
    /\ UNCHANGED cacheVars

\* lines 324-330: the hours an actor wrote in, with their counts
HourGroups(I, name) ==
    {[hour |-> h, count |-> Cardinality({i \in I : store[i].username = name
                                                     /\ store[i].hour = h})] :
        h \in {store[i].hour : i \in {j \in I : store[j].username = name}}}

\* lines 322-339: one row per actor, rows by falling total, rows of equal
\* total in any order
RivalPools(I) ==
    {Take(s, MAX_USERS_QUERY) :
        s \in {p \in Perms({[id |-> g.id, hours |-> HourGroups(I, g.id), total |-> g.count] :
                               g \in GroupByUser(I)}) :
                  \A i, j \in DOMAIN p : i < j => p[i].total >= p[j].total}}

\* line 180: get_rival reads the clock at line 318
user_stats_rival(answer) ==
    /\ Awaiting("rival")
    /\ LET date_filter == get_date_filter(arg.period, now)
       IN  IF answer # "none"
           THEN Abort("rival", answer)
           ELSE /\ \E all_users \in RivalPools(Matching(date_filter)) :
                      arg' = [arg EXCEPT !.stage = "top_replies",
                                         !.date_filter = date_filter,
                                         !.rival = get_rival(arg.username,
                                                       arg.histogram.hourly_activity,
                                                       all_users)]
                /\ resp' = resp
    /\ store' = Queried
    /\ UNCHANGED now
    /\ UNCHANGED cacheVars

\* line 181: get_top_replies reads the clock at line 383
user_stats_top_replies(answer) ==
    /\ Awaiting("top_replies")
    /\ LET date_filter == get_date_filter(arg.period, now)
       IN  IF answer # "none"
           THEN Abort("top_replies", answer)
           ELSE /\ \E user_messages \in UserMessages(lower(arg.username), date_filter) :
                   \E previous \in PreviousChoices(lower(arg.username), user_messages) :
                   \E sorted_replies \in SortedReplies(ReplyCounts(previous)) :
                      arg' = [arg EXCEPT !.stage = "rankings",
                                         !.date_filter = date_filter,
                                         !.top_replies =
                                             ReplyTargets(Take(sorted_replies, REPLY_LIMIT))]
                /\ resp' = resp
    /\ store' = Queried
    /\ UNCHANGED now
    /\ UNCHANGED cacheVars

\* line 182: get_user_rankings reads the clock at line 641
user_stats_rankings(answer) ==
    /\ Awaiting("rankings")
    /\ LET date_filter == get_date_filter(arg.period, now)
       IN  IF answer # "none"
           THEN Abort("rankings", answer)
           ELSE /\ \E all_users \in RankTables(Matching(date_filter)) :
                   \E prev_users \in PrevTables(now) :
                   \E current \in CurrentFacets(now) :
                      arg' = [arg EXCEPT !.stage = "top_emotes",
                                         !.date_filter = date_filter,
                                         !.rankings =
                                             UserRankings(arg.username, all_users, prev_users,
                                                 RisingStars(current, PreviousFacet(now),
                                                             RISING_LIMIT))]
                /\ resp' = resp
    /\ store' = Queried
    /\ UNCHANGED now
    /\ UNCHANGED cacheVars

\* line 183, lines 785-791: get_user_top_emotes looks the messages of the
\* last 30 days up, then calls count_emotes_in_messages
user_stats_top_emotes(answer) ==
    /\ Awaiting("top_emotes")
    /\ IF answer # "none"
       THEN Abort("top_emotes", answer)
       ELSE /\ arg' = [arg EXCEPT !.stage = "emotes"]
            /\ resp' = resp
    /\ store' = Queried
    /\ UNCHANGED now
    /\ UNCHANGED cacheVars

\* line 90: the coroutine of get_7tv_emotes this request runs
Requester == "r1"

\* lines 185-212, once get_7tv_emotes has returned
UserStatsResult ==
    UserStats(arg.histogram, arg.percentile, arg.rankings)
        @@ [recent_messages |-> arg.recent_messages, rival |-> arg.rival,
            top_replies |-> arg.top_replies]

user_stats_return ==
    /\ Awaiting("emotes")
    /\ pc[Requester] = "done"
    /\ resp' = StatsOutcome(arg.username, arg.period, arg.now, "return", "none",
                            UserStatsResult)
    /\ arg' = None
    /\ pc' = [pc EXCEPT ![Requester] = "idle"]
    /\ call_now' = [call_now EXCEPT ![Requester] = T0]
    /\ emotes' = [emotes EXCEPT ![Requester] = EmptyDict]
    /\ failed' = [failed EXCEPT ![Requester] = FALSE]
    /\ old_cache' = [old_cache EXCEPT ![Requester] = NoCache]
    /\ ret' = [ret EXCEPT ![Requester] = NoCache]
    /\ UNCHANGED <<store, now, emotes_cache, cache_time>>

----------------------------------------------------------------------------

(* Period tags as a caller of the core may pass them: the four tags of     *)
(* the API and one tag that is none of them.                               *)
Tags == Periods \cup {"year"}

(* The engine and the ingestion path together.                             *)

\* an empty store, no request in flight, the cache never populated
InitEngine ==
    /\ store = <<>>
    /\ now = T0
    /\ resp = None
    /\ emotes_cache = NoCache
    /\ cache_time = NoCache
    /\ pc = [p \in Callers |-> "idle"]
    /\ call_now = [p \in Callers |-> T0]
    /\ emotes = [p \in Callers |-> EmptyDict]
    /\ failed = [p \in Callers |-> FALSE]
    /\ old_cache = [p \in Callers |-> NoCache]
    /\ ret = [p \in Callers |-> NoCache]

Init ==
    /\ InitEngine
    /\ arg = None

Next ==
    \/ \E author \in Authors : event_message(author)
    \/ Tick
    \/ Reply
    \/ \E username \in Authors, period \in Periods : get_user_stats(username, period)
    \/ \E username \in Authors, period \in Periods : get_user_percentile(username, period)
    \/ \E username \in Authors, period \in Periods : get_user_rankings(username, period)
    \/ \E limit \in 1..MaxLimit : get_rising_stars(limit)

Spec == Init /\ [][Next]_vars

(* The emote cache under overlapping callers.                              *)

NextCache ==
    \/ CacheTick
    \/ \E p \in Callers : Call(p)
    \/ \E p \in Callers, data \in ChannelEmotes : ChannelOk(p, data)
    \/ \E p \in Callers : ChannelStatus(p)
    \/ \E p \in Callers, error \in FetchErrors : ChannelError(p, error)
    \/ \E p \in Callers, data \in GlobalEmotes : GlobalOk(p, data)
    \/ \E p \in Callers : GlobalStatus(p)
    \/ \E p \in Callers, error \in FetchErrors : GlobalError(p, error)
    \/ \E p \in Callers : Store(p)
    \/ \E p \in Callers : Return(p)

SpecCache == Init /\ [][NextCache]_vars

(* get_peak_hours on every histogram of at most MaxBins non-empty hours,   *)
(* and on the empty list.                                                  *)

InitPeak ==
    /\ InitEngine
    /\ arg \in {[op |-> "histogram", hourly_activity |-> h] : h \in {<<>>, ZeroHistogram}}

NextPeak ==
    \/ \E k \in 1..HoursPerDay, c \in BinCounts : FillBin(k, c)
    \/ PeakHours
    \/ Reply

SpecPeak == InitPeak /\ [][NextPeak]_vars

(* The growth rows on drawn facets.                                        *)

InitGrowth ==
    /\ InitEngine
    /\ arg \in DrawnFacets

NextGrowth ==
    \/ Growth
    \/ Reply

SpecGrowth == InitGrowth /\ [][NextGrowth]_vars

(* get_rival on drawn patterns and pools.                                  *)

InitRival ==
    /\ InitEngine
    /\ arg \in DrawnRivalInputs

NextRival ==
    \/ Rival
    \/ Reply

SpecRival == InitRival /\ [][NextRival]_vars

(* get_top_replies on short exchanges and on a busy chat.                  *)

InitExchange ==
    /\ InitEngine
    /\ arg = None

InitBusy ==
    /\ store \in BusyStores
    /\ now = T0 + 20
    /\ resp = None
    /\ arg = None
    /\ emotes_cache = NoCache
    /\ cache_time = NoCache
    /\ pc = [p \in Callers |-> "idle"]
    /\ call_now = [p \in Callers |-> T0]
    /\ emotes = [p \in Callers |-> EmptyDict]
    /\ failed = [p \in Callers |-> FALSE]
    /\ old_cache = [p \in Callers |-> NoCache]
    /\ ret = [p \in Callers |-> NoCache]

NextReplies ==
    \/ \E author \in Authors : event_message(author)
    \/ ReplyTick
    \/ Reply
    \/ \E username \in Authors, period \in ReplyPeriods :
           get_top_replies(username, period, REPLY_LIMIT)

InitReplies == InitExchange \/ InitBusy

SpecReplies == InitReplies /\ [][NextReplies]_vars

(* count_emotes_in_messages on drawn catalogs and message lists.           *)

InitCount ==
    /\ InitEngine
    /\ arg \in DrawnEmoteInputs

NextCount ==
    \/ count_emotes_in_messages
    \/ Reply

SpecCount == InitCount /\ [][NextCount]_vars

(* get_leaderboard beside the ingestion path.                              *)

NextLeaderboard ==
    \/ \E author \in Authors : event_message(author)
    \/ Tick
    \/ Reply
    \/ \E period \in Periods, limit \in 1..MaxLimit : LeaderboardQuery(period, limit)
    \/ LeaderboardTotals

SpecLeaderboard == Init /\ [][NextLeaderboard]_vars

(* The histograms of the engine beside the ingestion path.                 *)

NextActivity ==
    \/ \E author \in Authors : event_message(author)
    \/ Tick
    \/ Reply
    \/ \E username \in Authors, period \in Periods : get_user_stats(username, period)
    \/ get_chat_activity_today
    \/ get_overall_hourly_activity

SpecActivity == Init /\ [][NextActivity]_vars

(* The operations that take a period, called with every tag.               *)

NextTags ==
    \/ \E author \in Authors : event_message(author)
    \/ Tick
    \/ Reply
    \/ \E username \in Authors, period \in Tags : get_user_stats(username, period)
    \/ \E username \in Authors, period \in Tags : get_user_percentile(username, period)

SpecTags == Init /\ [][NextTags]_vars

(* get_user_stats suspended at each of its awaited calls, beside the       *)
(* ingestion path and the clock.  The emote catalog is out of reach here:  *)
(* its answers are those of SpecCache.                                     *)

\* the instants the clock is observed at: seen from the last one, the
\* first lies one second outside the 7 day window and the second on its border
CompositePoints == {T0, T0 + 1, T0 + 7 * Day + 1}

\* the actors the requests name, and their periods: within these instants
\* the window of "month" holds what the window of "all" holds
Subjects == {"a", "C"}
CompositePeriods == {"day", "week", "all"}

NextComposite ==
    \/ \E author \in Authors : Len(store) < MaxStored /\ event_message(author)
    \/ Advance(CompositePoints)
    \/ Reply
    \/ \E username \in Subjects, period \in CompositePeriods, answer \in StoreAnswers :
          user_stats_facet(username, period, answer)
    \/ \E answer \in StoreAnswers : user_stats_recent(answer)
    \/ \E answer \in StoreAnswers : user_stats_percentile(answer)
    \/ \E answer \in StoreAnswers : user_stats_rival(answer)
    \/ \E answer \in StoreAnswers : user_stats_top_replies(answer)
    \/ \E answer \in StoreAnswers : user_stats_rankings(answer)
    \/ \E answer \in StoreAnswers : user_stats_top_emotes(answer)
    \/ Awaiting("emotes") /\ Call(Requester)
    \/ Awaiting("emotes") /\ ChannelStatus(Requester)
    \/ Awaiting("emotes") /\ GlobalStatus(Requester)
    \/ Awaiting("emotes") /\ Store(Requester)
    \/ user_stats_return

SpecComposite == Init /\ [][NextComposite]_vars

----------------------------------------------------------------------------
(* What the claims are stated against: counts taken directly from the      *)
(* store, independently of the aggregation pipelines above.                *)

\* the events of `user` with lo <= timestamp
EventsSince(user, lo) ==
    {i \in DOMAIN store : store[i].username = user /\ store[i].timestamp >= lo}

\* the events of `user` with lo <= timestamp < hi
EventsBetween(user, lo, hi) ==
    {i \in EventsSince(user, lo) : store[i].timestamp < hi}

StoredUsers == {store[i].username : i \in DOMAIN store}

\* the number of events of `user` in the window of `period` ending at t
PeriodCount(user, period, t) ==
    CASE period = "day" -> Cardinality(EventsSince(user, t - Day))
      [] period = "week" -> Cardinality(EventsSince(user, t - 7 * Day))
      [] period = "month" -> Cardinality(EventsSince(user, t - 30 * Day))
      [] period = "all" -> Cardinality({i \in DOMAIN store : store[i].username = user})

\* tbl lists exactly the users with count(u) > 0, each once with its count,
\* counts never increasing
IsRankTable(tbl, count(_)) ==
    /\ \A i, j \in DOMAIN tbl : tbl[i].id = tbl[j].id => i = j
    /\ {tbl[i].id : i \in DOMAIN tbl} = {u \in StoredUsers : count(u) > 0}
    /\ \A i \in DOMAIN tbl : tbl[i].count = count(tbl[i].id)
    /\ \A i, j \in DOMAIN tbl : i < j => tbl[i].count >= tbl[j].count

----------------------------------------------------------------------------
(* C1 (as claimed): a refresh that fails while a populated, expired        *)
(* mapping is cached leaves that mapping in the cache and returns it.      *)
C1_FailedRefreshKeepsCache ==
    [][\A p \in Callers :
          (/\ pc[p] = "store" /\ pc'[p] = "done"
           /\ failed[p]
           /\ old_cache[p].set
           /\ old_cache[p] # Cached(EmptyDict)
           /\ emotes_cache = old_cache[p])
          => (emotes_cache' = old_cache[p] /\ ret'[p] = old_cache[p])]_vars

(* C2: the histogram get_user_stats returns has the 24 bins 0..23, and     *)
(* their counts add up to total_messages, which is the number of stored    *)
(* events of the actor in the period's window.                             *)
C2_HistogramSum ==
    (resp.op = "user_stats" /\ resp.out # NotFound) =>
        LET h == resp.out.hourly_activity
        IN  /\ Len(h) = 24
            /\ \A k \in 1..24 : h[k].hour = k - 1 /\ h[k].count >= 0
            /\ SumSeq([k \in 1..Len(h) |-> h[k].count]) = resp.out.total_messages
            /\ resp.out.total_messages =
                   PeriodCount(lower(resp.username), resp.period, resp.now)

C2_Witness ==
    /\ resp.op = "user_stats"
    /\ resp.out # NotFound
    /\ resp.period = "week"
    /\ resp.out.total_messages = 2
    /\ resp.out.hourly_activity[24].count = 2
    /\ Cardinality(EventsSince(lower(resp.username), 0)) = 3

\* the sum of the circular 3-hour window of histogram h that starts at hour s
C3_Window(h, s) ==
    h[s + 1].count + h[((s + 1) % 24) + 1].count + h[((s + 2) % 24) + 1].count

C3_Example ==
    [k \in 1..24 |-> [hour |-> k - 1, count |-> IF k - 1 \in {23, 0, 1} THEN 10 ELSE 0]]

(* C3: when some circular 3-hour window of the histogram is not empty,     *)
(* get_peak_hours returns the three hours of the window with the largest   *)
(* sum, the one with the smallest start hour among equals; 23, 0, 1 each   *)
(* 10 gives [23, 0, 1].                                                    *)
C3_PeakWindow ==
    (/\ resp.op = "peak_hours"
     /\ resp.hourly_activity # <<>>
     /\ \E s \in 0..23 : C3_Window(resp.hourly_activity, s) > 0) =>
        LET h == resp.hourly_activity
            s == CHOOSE s \in 0..23 :
                    /\ \A r \in 0..23 : C3_Window(h, r) <= C3_Window(h, s)
                    /\ \A r \in 0..23 : C3_Window(h, r) = C3_Window(h, s) => s <= r
        IN  /\ resp.out = <<s, (s + 1) % 24, (s + 2) % 24>>
            /\ h = C3_Example => resp.out = <<23, 0, 1>>

C3_Witness ==
    /\ resp.op = "peak_hours"
    /\ resp.hourly_activity = C3_Example
    /\ resp.out = <<23, 0, 1>>

(* C4: get_peak_hours returns the empty list for a histogram with no       *)
(* activity, and for the empty list.                                       *)
C4_NoActivity ==
    (/\ resp.op = "peak_hours"
     /\ \A k \in DOMAIN resp.hourly_activity : resp.hourly_activity[k].count = 0) =>
        resp.out = <<>>

C4_Witness ==
    /\ resp.op = "peak_hours"
    /\ Len(resp.hourly_activity) = 24
    /\ \A k \in DOMAIN resp.hourly_activity : resp.hourly_activity[k].count = 0
    /\ resp.out = <<>>

C6_RowsCount(count_c(_), count_p(_)) ==
    \A k \in DOMAIN resp.out :
        /\ resp.out[k].current_count = count_c(resp.out[k].username)
        /\ resp.out[k].previous_count = count_p(resp.out[k].username)

(* C6 (as claimed): the current window is [now - 7d, now) and the previous *)
(* window [now - 14d, now - 7d).                                           *)
C6_WindowsAsClaimed ==
    resp.op = "rising_stars" =>
        LET t == resp.now
            count_c(u) == Cardinality(EventsBetween(u, t - 7 * Day, t))
            count_p(u) == Cardinality(EventsBetween(u, t - 14 * Day, t - 7 * Day))
        IN  C6_RowsCount(count_c, count_p)

(* C6 (amended): the current window is every event with timestamp >=       *)
(* now - 7d, with no upper end; the previous window is [now - 14d,         *)
(* now - 7d).  Every event from now - 14d on is counted in exactly one of  *)
(* the two, and an older event in neither.                                 *)
C6_Windows ==
    resp.op = "rising_stars" =>
        LET t == resp.now
            count_c(u) == Cardinality(EventsSince(u, t - 7 * Day))
            count_p(u) == Cardinality(EventsBetween(u, t - 14 * Day, t - 7 * Day))
        IN  /\ C6_RowsCount(count_c, count_p)
            /\ {resp.current[k].id : k \in DOMAIN resp.current} =
                   {u \in StoredUsers : count_c(u) > 0}
            /\ \A k \in DOMAIN resp.current :
                  resp.current[k].count = count_c(resp.current[k].id)
            /\ \A k \in DOMAIN resp.out :
                  resp.out[k].current_count + resp.out[k].previous_count =
                      Cardinality(EventsSince(resp.out[k].username, t - 14 * Day))

C6_Witness ==
    /\ resp.op = "rising_stars"
    /\ \E k \in DOMAIN resp.out :
          /\ resp.out[k].current_count = 2
          /\ resp.out[k].previous_count = 1
          /\ \E i, j, m \in DOMAIN store :
                /\ store[i].username = resp.out[k].username
                /\ store[j].username = resp.out[k].username
                /\ store[m].username = resp.out[k].username
                /\ store[i].timestamp = resp.now - 7 * Day - 1
                /\ store[j].timestamp = resp.now - 7 * Day
                /\ store[m].timestamp > resp.now

\* the growth of an actor with counts c and p, by the formula of C5
C7_Growth(c, p) == IF p = 0 THEN Frac(c * 10, 1) ELSE Frac((c - p) * 100, p)

(* C7: get_rising_stars(limit) returns min(limit, number of actors of the  *)
(* current window) rows, each an actor of the current window, in the order *)
(* of falling unrounded growth, actors of equal growth in the order the    *)
(* store listed them, and the row at place i has rank i (counted from 1).  *)
(* The current window is the one of C6 as amended.                         *)
C7_Ordering ==
    resp.op = "rising_stars" =>
        LET t == resp.now
            actors == {u \in StoredUsers : EventsSince(u, t - 7 * Day) # {}}
            growth(u) ==
                C7_Growth(Cardinality(EventsSince(u, t - 7 * Day)),
                          Cardinality(EventsBetween(u, t - 14 * Day, t - 7 * Day)))
            place(u) == CHOOSE k \in DOMAIN resp.current : resp.current[k].id = u
            before(u, v) ==
                \/ FracLt(growth(v), growth(u))
                \/ FracEq(growth(u), growth(v)) /\ place(u) < place(v)
        IN  /\ Len(resp.out) = Min(resp.limit, Cardinality(actors))
            /\ \A i \in DOMAIN resp.out :
                  /\ resp.out[i].rank = i
                  /\ resp.out[i].username \in actors
                  /\ Cardinality({v \in actors : before(v, resp.out[i].username)}) = i - 1

C7_Witness ==
    /\ resp.op = "rising_stars"
    /\ Len(resp.current) = 2
    /\ resp.limit = 1
    /\ Len(resp.out) = 1
    /\ resp.out[1].username = resp.current[2].id
    /\ resp.out[1].rank = 1
    /\ resp.out[1].growth_percent = 100

(* C8: get_user_percentile returns 100 * (ranked actors with strictly      *)
(* fewer messages than the actor) / (ranked actors); 0 when the actor has  *)
(* no message in the period, and 0 for a sole participant.                 *)
C8_Percentile ==
    resp.op = "percentile" =>
        LET u == lower(resp.username)
            count(v) == PeriodCount(v, resp.period, resp.now)
            ranked == {v \in StoredUsers : count(v) > 0}
            below == {v \in ranked : count(v) < count(u)}
        IN  /\ Cardinality(ranked) <= MAX_USERS_QUERY
            /\ u \in ranked =>
                  resp.out.num * Cardinality(ranked) =
                      100 * Cardinality(below) * resp.out.den
            /\ u \notin ranked => resp.out.num = 0
            /\ ranked = {u} => resp.out.num = 0
            /\ resp.out.den > 0

C8_Witness ==
    /\ resp.op = "percentile"
    /\ resp.period = "week"
    /\ FracEq(resp.out, Frac(50, 1))
    /\ Cardinality(StoredUsers) = 2

(* C9: top_rank is the actor's place, counted from 1, in the table of the  *)
(* period: the actors with a message in the period by falling count, cut   *)
(* to 1000 rows; it is absent exactly when the actor is not in that table. *)
C9_TopRank ==
    resp.op = "rankings" =>
        LET u == lower(resp.username)
            count(v) == PeriodCount(v, resp.period, resp.now)
            ranked == {v \in StoredUsers : count(v) > 0}
            rank == resp.out.top_rank
        IN  /\ Cardinality(ranked) <= MAX_USERS_QUERY
            /\ IsRankTable(resp.all_users, count)
            /\ rank = Absent <=> u \notin ranked
            /\ rank # Absent =>
                  /\ rank \in DOMAIN resp.all_users
                  /\ resp.all_users[rank].id = u
                  /\ rank > Cardinality({v \in ranked : count(v) > count(u)})
                  /\ rank <= Cardinality({v \in ranked : count(v) >= count(u)})

C9_Witness ==
    /\ resp.op = "rankings"
    /\ resp.period = "week"
    /\ resp.out.top_rank = 2
    /\ Len(resp.all_users) = 2
    /\ resp.all_users[1].count = 1
    /\ Cardinality(StoredUsers) = 3

(* C10 (as claimed): top_rank_change is the actor's rank in the window     *)
(* [now - 14d, now - 7d) minus its rank in the window [now - 7d, now), and *)
(* is absent exactly when the actor is missing from one of the two.        *)
C10_AsClaimed ==
    resp.op = "rankings" =>
        LET u == lower(resp.username)
            t == resp.now
            prior(v) == Cardinality(EventsBetween(v, t - 14 * Day, t - 7 * Day))
            latest(v) == Cardinality(EventsBetween(v, t - 7 * Day, t))
            change == resp.out.top_rank_change
        IN  /\ change = None <=> (prior(u) = 0 \/ latest(u) = 0)
            /\ change # None =>
                  LET latest_rank == RankOf(resp.prev_users, u) - change.value
                  IN  /\ latest_rank >
                            Cardinality({v \in StoredUsers : latest(v) > latest(u)})
                      /\ latest_rank <=
                            Cardinality({v \in StoredUsers : latest(v) >= latest(u)})

(* C10 (amended): top_rank_change is the actor's rank in the table of the  *)
(* window [now - 14d, now - 7d) minus top_rank, its rank in the table of   *)
(* the requested period; it is absent exactly when the actor is missing    *)
(* from the period's table or from the table of [now - 14d, now - 7d).     *)
C10_RankDelta ==
    resp.op = "rankings" =>
        LET u == lower(resp.username)
            t == resp.now
            prior(v) == Cardinality(EventsBetween(v, t - 14 * Day, t - 7 * Day))
            change == resp.out.top_rank_change
            in_prior == {k \in DOMAIN resp.prev_users : resp.prev_users[k].id = u}
        IN  /\ IsRankTable(resp.prev_users, prior)
            /\ change = None <=> (PeriodCount(u, resp.period, t) = 0 \/ prior(u) = 0)
            /\ change # None =>
                  \A k \in in_prior : change.value = k - resp.out.top_rank

C10_Witness ==
    /\ resp.op = "rankings"
    /\ resp.period = "all"
    /\ resp.out.top_rank_change = [value |-> 1]
    /\ resp.out.top_rank = 1
    /\ EventsBetween(lower(resp.username), resp.now - 7 * Day, resp.now) = {}

\* the count a pool row has in hour hr
C11_RowCount(row, hr) ==
    IF \E g \in row.hours : g.hour = hr
    THEN (CHOOSE g \in row.hours : g.hour = hr).count
    ELSE 0

\* the pool row has the same count as the pattern in each of the 24 hours
C11_Identical(row, pattern) ==
    \A k \in 1..24 : C11_RowCount(row, k - 1) = pattern[k].count

(* C11: the score of the RivalInfo get_rival returns lies in [0, 100]      *)
(* (0..1000 tenths), and when the pool holds a candidate whose histogram   *)
(* is identical to the subject's nonzero histogram the rival returned      *)
(* scores 100.                                                             *)
C11_ScoreRange ==
    resp.op = "rival" =>
        /\ resp.out # None =>
              /\ resp.out.similarity_score >= 0
              /\ resp.out.similarity_score <= 1000
        /\ (/\ \E k \in 1..24 : resp.hourly_pattern[k].count > 0
            /\ \E i \in DOMAIN resp.all_users :
                  /\ resp.all_users[i].id # lower(resp.username)
                  /\ C11_Identical(resp.all_users[i], resp.hourly_pattern)) =>
              /\ resp.out # None
              /\ resp.out.similarity_score = 1000

C11_Witness ==
    /\ resp.op = "rival"
    /\ resp.hourly_pattern[1].count = 1
    /\ resp.hourly_pattern[24].count = 1
    /\ resp.out # None
    /\ resp.out.similarity_score = 1000
    /\ \E i \in DOMAIN resp.all_users :
          /\ resp.all_users[i].id = resp.out.username
          /\ C11_Identical(resp.all_users[i], resp.hourly_pattern)

\* the dot product of a pool row with the pattern, and the row's squared norm
C12_Dot(row, pattern) ==
    SumSeq([k \in 1..24 |-> C11_RowCount(row, k - 1) * pattern[k].count])
C12_Norm(row) ==
    SumSeq([k \in 1..24 |-> C11_RowCount(row, k - 1) * C11_RowCount(row, k - 1)])

\* cos(x, pattern) <= cos(y, pattern) for rows x, y of nonzero norm, in
\* exact arithmetic
C12_CosLe(x, y, pattern) ==
    C12_Dot(x, pattern) * C12_Dot(x, pattern) * C12_Norm(y)
        <= C12_Dot(y, pattern) * C12_Dot(y, pattern) * C12_Norm(x)

(* C12 (as claimed): get_rival returns the candidate of the pool, other    *)
(* than the subject and of nonzero magnitude, whose cosine similarity to   *)
(* the subject is highest, the earliest in the pool among candidates of    *)
(* equal similarity; never the subject; none when the subject's histogram  *)
(* is all zero or no candidate remains.                                    *)
C12_RivalSelection ==
    resp.op = "rival" =>
        LET pool == resp.all_users
            h == resp.hourly_pattern
            cands == {k \in DOMAIN pool :
                         pool[k].id # lower(resp.username) /\ C12_Norm(pool[k]) > 0}
            none == (\A k \in 1..24 : h[k].count = 0) \/ cands = {}
        IN  /\ none => resp.out = None
            /\ resp.out # None => resp.out.username # lower(resp.username)
            /\ ~none =>
                  /\ resp.out # None
                  /\ \E k \in cands :
                        /\ resp.out.username = pool[k].id
                        /\ \A j \in cands : C12_CosLe(pool[j], pool[k], h)
                        /\ \A j \in cands :
                              (C12_CosLe(pool[k], pool[j], h) /\ j # k) => k < j

\* the failing input: the subject wrote once in hour 0 and 3 times in hour
\* 23, b wrote 5 times in hour 0, a once in hour 0
C12_FailingInput ==
    /\ resp.op = "rival"
    /\ resp.hourly_pattern = Pattern(1, 3)
    /\ resp.all_users = <<PoolRow("b", 5, 0), PoolRow("a", 1, 0)>>
    /\ resp.out # None
    /\ resp.out.username = "a"

\* the pairs (m, p): m a message of the subject in the window of the
\* request, p a message of `u` in the 10 seconds before m
ReplyPairs(name, u, f) ==
    {<<m, p>> \in Matching(f) \X (DOMAIN store) :
        /\ store[m].username = name
        /\ store[p].username = u
        /\ store[p].timestamp >= store[m].timestamp - REPLY_WINDOW
        /\ store[p].timestamp < store[m].timestamp}

\* C13 (as claimed): the reply_count reported for an actor is the number of
\* pairs (m, p) of a message m of the subject and a message p of that actor
\* with m.timestamp - 10s <= p.timestamp < m.timestamp, every such message
\* earning one credit; the subject is never in the result; a message 20
\* seconds before m earns nothing.
C13_ReplyCredit ==
    resp.op = "replies" =>
        LET name == lower(resp.username)
            f == get_date_filter(resp.period, resp.now)
        IN  /\ \A k \in DOMAIN resp.out :
                   /\ resp.out[k].username # name
                   /\ resp.out[k].reply_count =
                          Cardinality(ReplyPairs(name, resp.out[k].username, f))
            /\ \A u \in {store[i].username : i \in DOMAIN store} \ {name} :
                   ReplyPairs(name, u, f) # {} =>
                       \/ \E k \in DOMAIN resp.out : resp.out[k].username = u
                       \/ Len(resp.out) = REPLY_LIMIT

\* 51 messages of b precede the message of C by 5 seconds and 50 are credited
C13_FailingInput ==
    /\ resp.op = "replies"
    /\ resp.username = "C"
    /\ store = Burst("b", T0 + 15, PREVIOUS_LIMIT + 1) \o Burst("C", T0 + 20, 1)
    /\ resp.out = <<[username |-> "b", reply_count |-> PREVIOUS_LIMIT]>>

\* the credits of a chat that stays within the limit of line 406: C at
\* T0 + 20, b at T0 + 15 and at T0 gives b one credit
C13_Example ==
    /\ resp.op = "replies"
    /\ resp.username = "C"
    /\ \E i, j, k \in DOMAIN store :
          /\ store[i] = [username |-> "b", timestamp |-> T0, hour |-> BrtHour(T0)]
          /\ store[j].username = "b" /\ store[j].timestamp = T0 + 15
          /\ store[k].username = "c" /\ store[k].timestamp = T0 + 20
    /\ Len(store) = 3
    /\ resp.out = <<[username |-> "b", reply_count |-> 1]>>

\* C13 (amended): when no message of the subject is preceded within 10
\* seconds by more than 50 messages of others, the reply_count reported for
\* an actor is the number of pairs (m, p), p a message of that actor with
\* m.timestamp - 10s <= p.timestamp < m.timestamp, and the subject is never
\* in the result.
C13_CreditWithinLimit ==
    (/\ resp.op = "replies"
     /\ \A m \in DOMAIN store :
            Cardinality({j \in DOMAIN store :
                            InReplyWindow(lower(resp.username), m, j)}) <= PREVIOUS_LIMIT)
        => C13_ReplyCredit

\* the words of the messages that are `name`, each as <<message, position>>
Occurrences(messages, name) ==
    {<<i, k>> \in (DOMAIN messages) \X (1..MaxChars) :
        k \in WordStarts(messages[i]) /\ WordAt(messages[i], k) = name}

\* the occurrence o comes before the occurrence q in the scan
ScannedBefore(o, q) == o[1] < q[1] \/ (o[1] = q[1] /\ o[2] < q[2])

\* the first occurrence of `name` comes before the first of `other`
FirstBefore(messages, name, other) ==
    \E o \in Occurrences(messages, name) :
        \A q \in Occurrences(messages, other) : ScannedBefore(o, q)

\* `name` goes before `other` in the result
RanksBefore(messages, name, other) ==
    LET n == Cardinality(Occurrences(messages, name))
        m == Cardinality(Occurrences(messages, other))
    IN  n > m \/ (n = m /\ FirstBefore(messages, name, other))

\* C14: with a non-empty catalog the result lists catalog names with the
\* number of words of the messages equal to the name, each at least 1; it
\* has min(limit, names that occur) entries, by falling count, equal counts
\* by first occurrence in the scan, and no name left out ranks before a
\* name listed.
C14_EmoteCounting ==
    (resp.op = "emotes" /\ resp.emotes # EmptyDict) =>
        LET out == resp.out
            used == {name \in DOMAIN resp.emotes : Occurrences(resp.messages, name) # {}}
            listed == {out[k].emote_name : k \in DOMAIN out}
        IN  /\ Len(out) = Min(resp.limit, Cardinality(used))
            /\ listed \subseteq used
            /\ \A k \in DOMAIN out :
                   /\ out[k].count = Cardinality(Occurrences(resp.messages, out[k].emote_name))
                   /\ out[k].count >= 1
                   /\ out[k].emote_id = resp.emotes[out[k].emote_name]
            /\ \A i, j \in DOMAIN out :
                   i < j => RanksBefore(resp.messages, out[i].emote_name, out[j].emote_name)
            /\ \A name \in used \ listed : \A k \in DOMAIN out :
                   RanksBefore(resp.messages, out[k].emote_name, name)

\* "k" and "K" once each, "k" first, two blanks between them, and room for
\* one entry only: the entry is "k"
C14_Witness ==
    /\ resp.op = "emotes"
    /\ resp.messages = << <<"k", " ", " ", "K">> >>
    /\ resp.limit = 1
    /\ DOMAIN resp.emotes = {<<"K">>, <<"k">>}
    /\ resp.out = <<[emote_name |-> <<"k">>, emote_id |-> "e2", count |-> 1]>>

\* the events of the window of the response among the first n stored
WindowOf(n) ==
    {i \in Matching(get_date_filter(resp.period, resp.now)) : i <= n}

ActorsOf(I) == {store[i].username : i \in I}

CountOf(I, u) == Cardinality({i \in I : store[i].username = u})

\* C15: get_leaderboard returns min(limit, distinct actors in the window)
\* entries, one per actor, with the actor's message count, counts not
\* rising, no actor left out having more than one listed, and ranks 1..n in
\* order; total_messages and total_users are the events and the distinct
\* actors of the whole window.  The entries are those of the store as the
\* first aggregation saw it, the totals those of the store as the second did.
C15_Leaderboard ==
    resp.op = "leaderboard" =>
        LET rows == resp.leaderboard
            first == WindowOf(resp.seen)
            second == WindowOf(Len(store))
        IN  /\ Len(rows) = Min(resp.limit, Cardinality(ActorsOf(first)))
            /\ \A k \in DOMAIN rows :
                   /\ rows[k].rank = k
                   /\ rows[k].username \in ActorsOf(first)
                   /\ rows[k].message_count = CountOf(first, rows[k].username)
            /\ \A i, j \in DOMAIN rows :
                   i < j => /\ rows[i].message_count >= rows[j].message_count
                            /\ rows[i].username # rows[j].username
            /\ \A u \in ActorsOf(first) :
                   (\A k \in DOMAIN rows : rows[k].username # u) =>
                       \A k \in DOMAIN rows : rows[k].message_count >= CountOf(first, u)
            /\ resp.total_messages = Cardinality(second)
            /\ resp.total_users = Cardinality(ActorsOf(second))

\* three actors wrote once each within the week; the limit is 2: two
\* entries, totals over all three
C15_Witness ==
    /\ resp.op = "leaderboard"
    /\ resp.period = "week"
    /\ resp.limit = 2
    /\ resp.seen = Len(store)
    /\ Len(resp.leaderboard) = 2
    /\ resp.total_users = 3
    /\ resp.total_messages = 3

\* the callers whose catalog fetch is outstanding: suspended at one of the
\* two GETs
Fetching == {p \in Callers : pc[p] \in {"channel", "global"}}

\* C16 (as claimed): a catalog fetch is started only by a lookup that finds
\* the cache never populated or at least 3600 seconds old, and any two
\* fetches are at least 3600 seconds apart: when a lookup starts one, the
\* cache is not fresh and every fetch still outstanding began 3600 seconds
\* ago or earlier.
C16_RefreshRate ==
    [][\A p \in Callers :
           (pc[p] = "idle" /\ pc'[p] = "channel") =>
               /\ ~Fresh(now)
               /\ \A q \in Fetching : now - call_now[q] >= CACHE_TTL]_vars

\* r2 starts a fetch in the second in which r1 started one
C16_FailingInput ==
    /\ pc["r1"] = "global"
    /\ pc["r2"] = "channel"
    /\ call_now["r1"] = T0
    /\ call_now["r2"] = T0
    /\ ~emotes_cache.set

\* what holds of the start of a fetch: the cache is unpopulated or 3600
\* seconds old
C16_StartsOnMiss ==
    [][\A p \in Callers : (pc[p] = "idle" /\ pc'[p] = "channel") => ~Fresh(now)]_vars

\* C17 (as claimed): among overlapping callers at most one catalog fetch is
\* outstanding at any moment.
C17_SingleFlight == Cardinality(Fetching) <= 1

\* both callers are suspended at the channel GET
C17_FailingInput ==
    /\ pc["r1"] = "channel"
    /\ pc["r2"] = "channel"
    /\ now = T0 + CACHE_TTL
    /\ emotes_cache.set

\* C18: the mapping and the refresh instant only ever change together, to
\* the dict and the `now` of one caller that has left its fetch, and a
\* lookup that takes the cache-hit path returns the mapping stored so; no
\* dict a caller is still filling is ever in the cache.
C18_AtomicVisibility ==
    [][/\ (emotes_cache' # emotes_cache \/ cache_time' # cache_time) =>
              \E p \in Callers :
                  /\ pc[p] = "store" /\ pc'[p] = "done"
                  /\ emotes_cache' = Cached(emotes[p])
                  /\ cache_time' = Cached(call_now[p])
                  /\ emotes'[p] = emotes[p]
       /\ emotes_cache'.set <=> cache_time'.set
       /\ \A p \in Callers :
              (pc[p] = "idle" /\ pc'[p] = "done") =>
                  /\ emotes_cache.set /\ cache_time.set
                  /\ ret'[p] = emotes_cache
                  /\ UNCHANGED <<emotes_cache, cache_time>>]_vars

\* r1 has taken the cache-hit path while r2, which found the cache expired,
\* is between its two GETs with a dict that is not the cached one
C18_Witness ==
    /\ pc["r1"] = "done"
    /\ emotes["r1"] = EmptyDict
    /\ ret["r1"] = emotes_cache
    /\ emotes_cache.set
    /\ emotes_cache.val # EmptyDict
    /\ pc["r2"] = "global"
    /\ emotes["r2"] # EmptyDict
    /\ emotes["r2"] # emotes_cache.val

\* message texts with the words K and k in them
SampleMessages == {<<>>, << <<"K", " ", "k">>, <<"k">> >>}

\* a list of emote usages of the catalog `emotes_dict`
IsEmoteList(out, emotes_dict) ==
    /\ DOMAIN out = 1..Len(out)
    /\ \A k \in DOMAIN out :
           /\ out[k].emote_name \in DOMAIN emotes_dict
           /\ out[k].emote_id = emotes_dict[out[k].emote_name]
           /\ out[k].count >= 1

\* C19: no error raised while the catalog is fetched leaves get_7tv_emotes:
\* no call ends raising, every call that ends returns a dict, and
\* count_emotes_in_messages makes an emote list of it (the empty list of an
\* empty dict).
C19_SoftFailure ==
    \A p \in Callers :
        /\ pc[p] # "raised"
        /\ pc[p] = "done" =>
               /\ ret[p].set
               /\ \A messages \in SampleMessages :
                      IsEmoteList(CountEmotes(ret[p].val, messages, REPLY_LIMIT), ret[p].val)

\* the channel GET gave K, the global GET failed, and the call returned the
\* dict with K alone
C19_Witness ==
    /\ pc["r1"] = "done"
    /\ failed["r1"]
    /\ ret["r1"] = Cached(<<"K">> :> "c1")
    /\ CountEmotes(ret["r1"].val, << <<"K", " ", "k">>, <<"k">> >>, REPLY_LIMIT)
           = <<[emote_name |-> <<"K">>, emote_id |-> "c1", count |-> 1]>>

\* 24 bins, hour 0 to hour 23, all zero
AllZero(h) ==
    /\ Len(h) = HoursPerDay
    /\ \A k \in DOMAIN h : h[k].hour = k - 1 /\ h[k].count = 0

\* the events the response was computed on
MatchedBy(r) ==
    IF r.op = "user_stats"
    THEN {i \in DOMAIN store :
             /\ Match(store[i], get_date_filter(r.period, r.now))
             /\ store[i].username = lower(r.username)}
    ELSE IF r.op = "chat_activity_today"
    THEN {i \in DOMAIN store : store[i].timestamp >= r.now - Day}
    ELSE DOMAIN store

HistogramOps == {"user_stats", "chat_activity_today", "overall_hourly_activity"}

\* C20 (as claimed): when no event matches, get_user_stats, as well as
\* get_chat_activity_today and get_overall_hourly_activity, yields a
\* histogram of exactly 24 bins, all zero.
C20_EmptyHistogram ==
    (resp.op \in HistogramOps /\ MatchedBy(resp) = {}) =>
        IF resp.op = "user_stats"
        THEN resp.out # NotFound /\ AllZero(resp.out.hourly_activity)
        ELSE AllZero(resp.out.activity)

\* C20 (amended): when no event matches, get_chat_activity_today and
\* get_overall_hourly_activity yield exactly 24 bins, all zero, with total
\* 0; get_user_stats yields the not found outcome and no histogram, and
\* every histogram it does yield has exactly 24 bins, hour 0 to hour 23.
C20_EmptyHistogramAmended ==
    resp.op \in HistogramOps =>
        IF resp.op = "user_stats"
        THEN IF MatchedBy(resp) = {}
             THEN resp.out = NotFound
             ELSE /\ resp.out # NotFound
                  /\ Len(resp.out.hourly_activity) = HoursPerDay
                  /\ \A k \in 1..HoursPerDay : resp.out.hourly_activity[k].hour = k - 1
        ELSE /\ Len(resp.out.activity) = HoursPerDay
             /\ \A k \in 1..HoursPerDay : resp.out.activity[k].hour = k - 1
             /\ MatchedBy(resp) = {} => AllZero(resp.out.activity) /\ resp.out.total = 0

\* the store holds events, all older than 24 hours, and the activity of
\* today has 24 zero bins
C20_Witness ==
    /\ resp.op = "chat_activity_today"
    /\ store # <<>>
    /\ AllZero(resp.out.activity)
    /\ resp.out.peak_count = 0

\* the outcome the error model promises for an unrecognized period tag
InvalidArgument == [op |-> "invalid_argument"]

\* C21: an operation called with a period tag other than day, week, month
\* and all fails with InvalidArgument, and never answers as if the window
\* were unbounded.
C21_PeriodValidation ==
    (resp # None /\ resp.period \notin Periods) => resp.out = InvalidArgument

\* get_user_stats called with the tag "year" answers with the count of all
\* the events of the actor, one of them older than 30 days
C21_FailingInput ==
    /\ resp.op = "user_stats"
    /\ resp.period = "year"
    /\ resp.out # NotFound
    /\ resp.out.total_messages =
           Cardinality({i \in DOMAIN store : store[i].username = lower(resp.username)})
    /\ \E i \in DOMAIN store :
          /\ store[i].username = lower(resp.username)
          /\ store[i].timestamp < resp.now - 30 * Day

\* C22: within one get_user_stats request all sub-queries use the same
\* instant now: for a bounded period, an event inside the window of the
\* first sub-query is inside the window of every later sub-query, however
\* much time passes between them.
C22_SingleNow ==
    (arg.op = "user_stats_call" /\ arg.period # "all") =>
        \A i \in DOMAIN store :
            Match(store[i], arg.first) => Match(store[i], arg.date_filter)

\* the facet query counted the one message of the actor, written at T0, in
\* the window of the week; the clock moved on before get_user_percentile
\* read it, whose window the message has left: the percentile is that of an
\* actor without messages
C22_FailingInput ==
    /\ arg.op = "user_stats_call"
    /\ arg.period = "week"
    /\ arg.stage = "rival"
    /\ arg.histogram.total_messages = 1
    /\ arg.first.gte < arg.date_filter.gte
    /\ \E i \in DOMAIN store :
          /\ store[i].username = lower(arg.username)
          /\ Match(store[i], arg.first)
          /\ ~Match(store[i], arg.date_filter)
    /\ FracEq(arg.percentile, Frac(0, 1))

\* the awaited sub-computations of lines 178-183
SubComputations == {"percentile", "rival", "top_replies", "rankings", "top_emotes"}

\* a result of get_user_stats, whole or partial
IsResult(out) == {"total_messages", "hourly_activity"} \subseteq DOMAIN out

\* C23: when one sub-computation of get_user_stats fails with a store error
\* the response is not aborted: it is a result, partial, that marks the
\* failed field.
C23_BestEffort ==
    (resp.op = "user_stats" /\ resp.stage \in SubComputations /\ resp.error # "none") =>
        /\ resp.out # Raised(resp.error)
        /\ IsResult(resp.out)

\* the store times out in get_top_replies, after the percentile and the
\* rival were computed, and the request ends with the exception
C23_FailingInput ==
    /\ resp.op = "user_stats"
    /\ resp.stage = "top_replies"
    /\ resp.error = "ExecutionTimeout"
    /\ resp.out = Raised("ExecutionTimeout")

\* a step of the service or of the HTTP layer, not of the ingestion path
ServiceStep == resp' # resp \/ arg' # arg \/ cacheVars' # cacheVars

\* C24: no step of a stats_service operation inserts, changes or deletes a
\* stored event, and the only shared state the operations write is the
\* cache pair, written by get_7tv_emotes at lines 83-84.
C24_ReadOnly ==
    [][/\ ServiceStep => store' = store
       /\ (emotes_cache' # emotes_cache \/ cache_time' # cache_time) =>
              pc[Requester] = "store"]_vars

\* a request ran through all its sub-computations on a full store and its
\* call of get_7tv_emotes refreshed the cache
C24_Witness ==
    /\ resp.op = "user_stats"
    /\ resp.stage = "return"
    /\ Len(store) = MaxStored
    /\ emotes_cache = Cached(EmptyDict)
    /\ cache_time = Cached(now)

\* C25: get_user_stats yields the not found outcome exactly when the store
\* answered and the actor has no event in the requested window; an error
\* of the store in any of its queries ends the request with that error,
\* never with the not found outcome and never with a result.
C25_NotFoundOrError ==
    resp.op = "user_stats" =>
        /\ resp.out = NotFound <=>
              /\ resp.error = "none"
              /\ UserMatching(resp.username, get_date_filter(resp.period, resp.now)) = {}
        /\ resp.error # "none" <=> resp.out = Raised(resp.error)
        /\ IsResult(resp.out) => resp.out.total_messages > 0

\* the actor has written, but not within the last day: not found
C25_Witness ==
    /\ resp.op = "user_stats"
    /\ resp.period = "day"
    /\ resp.error = "none"
    /\ resp.out = NotFound
    /\ \E i \in DOMAIN store : store[i].username = lower(resp.username)

\* the call of p took the fetch path and stores at this step
Completes(p) == pc[p] = "store" /\ pc'[p] = "done"

\* the first half of C26: the mapping is None exactly when the refresh
\* instant is None, and a call that took the fetch path leaves the mapping
\* set and the refresh instant at its own start, whether the fetch failed
\* or not
C26_PairAndInstant ==
    [][/\ emotes_cache.set <=> cache_time.set
       /\ emotes_cache'.set <=> cache_time'.set
       /\ \A p \in Callers :
             Completes(p) => emotes_cache'.set /\ cache_time' = Cached(call_now[p])]_vars

\* C26: every completed get_7tv_emotes call that took the fetch path leaves
\* the cache non-None and the refresh instant at that call's start, the
\* mapping is None iff the refresh instant is None, and after a failed
\* fetch no later lookup within 3600 seconds retries the catalog.
C26_NoRetryAfterFailure ==
    [][/\ emotes_cache.set <=> cache_time.set
       /\ \A p \in Callers :
             Completes(p) => emotes_cache'.set /\ cache_time' = Cached(call_now[p])
       /\ \A p, q \in Callers :
             (/\ pc[p] = "done"
              /\ failed[p]
              /\ now - call_now[p] < CACHE_TTL
              /\ pc[q] = "idle") => pc'[q] # "channel"]_vars

\* r2 started at T0 + 3599 and failed; r1, started at T0 and still under
\* way then, stored after it and set the refresh instant back to T0; the
\* lookup of r1 at T0 + 3600, one second after the failed fetch of r2,
\* fetches again
C26_FailingInput ==
    /\ pc["r2"] = "done"
    /\ failed["r2"]
    /\ call_now["r2"] = T0 + CACHE_TTL - 1
    /\ cache_time = Cached(T0)
    /\ pc["r1"] = "channel"
    /\ call_now["r1"] = T0 + CACHE_TTL

\* C27: across every interleaving of overlapping get_7tv_emotes calls the
\* stored refresh instant never decreases.
C27_MonotoneRefresh ==
    [][(cache_time.set /\ cache_time'.set) => cache_time'.val >= cache_time.val]_vars

\* r2 fetched the channel set and stored it with its later instant; r1,
\* which had read the clock earlier, stored after it: the cache holds the
\* older answer under the older instant
C27_FailingInput ==
    /\ pc["r1"] = "done"
    /\ pc["r2"] = "done"
    /\ call_now["r1"] < call_now["r2"]
    /\ emotes["r2"] = (<<"K">> :> "c1")
    /\ emotes["r1"] = EmptyDict
    /\ emotes_cache = Cached(EmptyDict)
    /\ cache_time = Cached(call_now["r1"])

\* C28: get_user_percentile returns v with 0 <= v < 100, and v = 0 for
\* every actor whose count is the least of the table of the period, the
\* actors tied for it and the actors absent from it included.
C28_PercentileRange ==
    resp.op = "percentile" =>
        LET u == lower(resp.username)
            count(v) == PeriodCount(v, resp.period, resp.now)
            ranked == {v \in StoredUsers : count(v) > 0}
        IN  /\ resp.out.den > 0
            /\ 0 <= resp.out.num
            /\ resp.out.num < 100 * resp.out.den
            /\ (\A v \in ranked : count(u) <= count(v)) => resp.out.num = 0

\* two actors are tied for the least count of the week, a third message
\* has left the week, and the percentile of one of the two is 0
C28_Witness ==
    /\ resp.op = "percentile"
    /\ resp.period = "week"
    /\ LET u == lower(resp.username)
           count(v) == PeriodCount(v, resp.period, resp.now)
       IN  /\ count(u) = 1
           /\ \E v \in StoredUsers \ {u} : count(v) = 1
           /\ \E i \in DOMAIN store : store[i].timestamp < resp.now - 7 * Day
    /\ resp.out.num = 0

=============================================================================
